---- MODULE Spec2Model ----
(***************************************************************************)
(* The block-replay run loop of cmd/monad/runloop_monad_ethblocks.cpp:     *)
(* runloop_monad_ethblocks drives process_monad_block over the heights of  *)
(* a block archive.  The single driving thread is modelled by a program    *)
(* counter `pc`; the stop flag is the only thing another party changes.    *)
(* Collaborators whose code is outside the file (validators, the execution *)
(* engine, the state store) are modelled by their interface: every result  *)
(* they can hand back is a nondeterministic choice of the calling stage.   *)
(*                                                                         *)
(* The event ring set-up of event.cpp (src/README.md): several processes   *)
(* run init_execution_event_recorder on one ring path, every system call   *)
(* being one step (RingSpec), and try_parse_event_ring_config is applied   *)
(* to configuration strings (ParseSpec).                                   *)
(*                                                                         *)
(* The throughput lines of a call that crosses a batch boundary are        *)
(* explored from height 999 (BatchSpec).  The Memoized cache of            *)
(* ExprAutoMutationAnalyzer.hpp (src/unnamed/part_002) with its            *)
(* per-function analyzers is a model of its own (MemoSpec).                *)
(***************************************************************************)
EXTENDS Integers, Sequences, FiniteSets, TLC

\* ------------------------------------------------------------------------
\* Bounds of the model
\* ------------------------------------------------------------------------
\* highest height the block archive holds (block_db.get fails above it)
MaxHeight == 3
\* most transactions in one archived block
MaxTxs == 2
\* largest header gas_used of an archived block
MaxGas == 1
\* most authorities of one transaction, where their order matters
MaxAuthorities == 2
\* processes that set up an event ring on the same ring path
NumProcs == 2
\* most calls of init_execution_event_recorder by one process
MaxCalls == 2
\* most colon-separated tokens of a configuration string
MaxTokens == 4
\* Memoized caches, function declarations and expressions of the mutation
\* analysis, and most requests (look-ups, searches and clears) made of the
\* caches together
NumCaches == 2
NumFuncs == 2
NumExprs == 2
MaxRequests == 5

\* ------------------------------------------------------------------------
\* Program constants
\* ------------------------------------------------------------------------
\* std::numeric_limits<uint64_t>::max(): the largest value of the integer
\* type; the model's integers end at 2^31 - 1, which stands for it.
UINT64_MAX == 2147483647
\* batch size of a bounded range
BATCH_SIZE == 1000
\* commit duration, in milliseconds, above which a warning is logged
SLOW_COMMIT_MS == 500
\* the default shifts of the execution event ring; their values are set
\* outside the file
DEFAULT_EXEC_RING_DESCRIPTORS_SHIFT == 21
DEFAULT_EXEC_RING_PAYLOAD_BUF_SHIFT == 29

\* ------------------------------------------------------------------------
\* Values
\* ------------------------------------------------------------------------
\* std::optional: absent is the empty sequence, present a one-element one
None == << >>
Some(x) == << x >>
has_value(o) == o # None
value(o) == o[1]

\* Address{}: the value of a default-constructed Address
ZeroAddress == "0x00"
Addresses == {"0xa1", "0xa2", "0xa3"}
\* result of recovering one signature
OptAddress == {None} \cup {Some(a) : a \in Addresses}

\* A transaction is characterised by what signature recovery yields for it:
\* its sender and its ordered list of authorities, each possibly absent.
Tx(s, auths) == [sender |-> s, authorities |-> auths]
Transactions ==
    { Tx(Some("0xa1"), << >>),
      Tx(Some("0xa2"), << None, Some("0xa1") >>),
      Tx(None, << Some("0xa3") >>) }

SeqUpTo(S, n) == UNION { [1..k -> S] : k \in 0..n }
TxLists == SeqUpTo(Transactions, MaxTxs)

\* A wider choice of transactions for the claims about the AddressSet of
\* one block: every sender outcome with every list of authority outcomes
\* up to a length.
WideTransactions ==
    { Tx(s, auths) :
        s \in {None, Some("0xa1"), Some("0xa2")},
        auths \in SeqUpTo({None, Some("0xa1"), Some("0xa3")},
                          MaxAuthorities) }
WideTxLists == SeqUpTo(WideTransactions, MaxTxs)

\* uint64_t arithmetic of the two expressions that can leave the range
Uint64Dec(n) == IF n = 0 THEN UINT64_MAX ELSE n - 1
\* an increment that passes over a height
Uint64Inc_ByTwo(n) == IF n >= UINT64_MAX - 1 THEN 0 ELSE n + 2
Uint64Inc(n) == IF n = UINT64_MAX THEN 0 ELSE n + 1

\* bytes32_t{n} for a uint64_t n: 32 bytes, the value big-endian in the
\* last eight of them
RECURSIVE BigEndian(_, _)
BigEndian(n, len) ==
    IF len = 0 THEN << >>
    ELSE Append(BigEndian(n \div 256, len - 1), n % 256)
Bytes32(n) == [i \in 1..24 |-> 0] \o BigEndian(n, 8)
\* bytes32_t{}
ZeroBytes32 == [i \in 1..32 |-> 0]

\* Block header fields the run loop reads or writes
Header(n, ph, g, r) ==
    [number |-> n, parent_hash |-> ph, gas_used |-> g, state_root |-> r]
\* state roots: the one archived headers declare, and another one
DeclaredRoot == "root_a"
StateRoots == {"root_a", "root_b"}
\* to_bytes(keccak256(rlp::encode_block_header(h))): a hash is kept as the
\* tagged preimage, so equal hashes mean equal headers
Keccak(h) == << "keccak256", h >>
\* bytes32_t{} as a hash
ZeroHash == << "0x00" >>
\* a declared parent hash that is not the hash of a header of the store
BogusHash == Keccak(Header(0, ZeroHash, 0, "root_unknown"))

\* ------------------------------------------------------------------------
\* Sender and authority recovery, and the AddressSet of a block
\* ------------------------------------------------------------------------
\* recover_senders: one optional sender per transaction
recover_senders(txs) == [i \in 1..Len(txs) |-> txs[i].sender]
\* recover_authorities: one list of optional authorities per transaction
recover_authorities(txs) == [i \in 1..Len(txs) |-> txs[i].authorities]

\* index of the first transaction whose sender is absent, 0 if there is none
FirstMissingSender(recovered) ==
    IF \E i \in 1..Len(recovered) : ~has_value(recovered[i])
    THEN CHOOSE i \in 1..Len(recovered) :
            /\ ~has_value(recovered[i])
            /\ \A j \in 1..(i - 1) : has_value(recovered[j])
    ELSE 0

\* the senders vector of the startup seeding: an entry whose sender is
\* absent keeps the default-constructed Address
SeedSenders(recovered) ==
    [j \in 1..Len(recovered) |->
        IF has_value(recovered[j]) THEN value(recovered[j]) ELSE ZeroAddress]

\* an absent authority inserted as the default Address
InsertAll_DefaultForAbsent(senders, authorities) ==
    { senders[i] : i \in 1..Len(senders) }
    \cup UNION { { IF has_value(authorities[i][k])
                   THEN value(authorities[i][k]) ELSE ZeroAddress :
                     k \in 1..Len(authorities[i]) } :
                 i \in 1..Len(authorities) }
\* a set that keeps only the sender inserted last
InsertAll_LastSenderOnly(senders, authorities) ==
    { senders[i] : i \in {Len(senders)} \ {0} }
    \cup UNION { { value(authorities[i][k]) :
                     k \in { k2 \in 1..Len(authorities[i]) :
                               has_value(authorities[i][k2]) } } :
                 i \in 1..Len(authorities) }
\* insert every sender, then every authority that has a value
InsertAll(senders, authorities) ==
    { senders[i] : i \in 1..Len(senders) }
    \cup UNION { { value(authorities[i][k]) :
                     k \in { k2 \in 1..Len(authorities[i]) :
                               has_value(authorities[i][k2]) } } :
                 i \in 1..Len(authorities) }

\* the set the startup seeding derives from an archived block
SeedSet(b) ==
    InsertAll(SeedSenders(recover_senders(b.transactions)),
              recover_authorities(b.transactions))

\* ------------------------------------------------------------------------
\* State
\* ------------------------------------------------------------------------
VARIABLES
    \* position of the driving thread and what the call handed back
    pc, result,
    \* parameters of runloop_monad_ethblocks
    finalized_block_num, end_block_num, stop, enable_tracing,
    \* locals of runloop_monad_ethblocks
    batch_size, batch_num_blocks, batch_num_txs, total_gas, batch_gas, ntxs,
    parent_block_id, block_num,
    parent_senders_and_authorities, grandparent_senders_and_authorities,
    block, block_id, senders_and_authorities, process_result,
    \* locals of process_monad_block
    recovered_senders, recovered_authorities, senders, set_local,
    call_tracers, state_tracers, chain_context, receipts, commit_time,
    output_header,
    \* the heights of the blocks whose BlockState object is alive
    block_state,
    \* the state store, the block-hash buffer, the throughput lines of the
    \* run loop and the lines process_monad_block logged for the block in
    \* progress
    db_scope, db_headers, calls, block_hash_buffer, log, block_log,
    \* history: height the call started at, blocks read from the archive,
    \* heights fetched by the loop, stages run for the block in progress,
    \* blocks for which process_monad_block returned success, parent hash
    \* the block in progress had when it was read
    start, archive, fetched, stages, processed, declared_parent_hash

params == << finalized_block_num, end_block_num, enable_tracing >>
counters ==
    << batch_size, batch_num_blocks, batch_num_txs, total_gas, batch_gas,
       ntxs >>
window ==
    << parent_senders_and_authorities, grandparent_senders_and_authorities >>
loopvars ==
    << parent_block_id, block_num, block, block_id, senders_and_authorities,
       process_result >>
recovery == << recovered_senders, recovered_authorities, senders, set_local >>
tracers == << call_tracers, state_tracers >>
execution ==
    << chain_context, receipts, commit_time, output_header, block_state >>
store == << db_scope, db_headers, calls, block_hash_buffer >>
history ==
    << start, archive, fetched, processed, declared_parent_hash >>
logs == << log, block_log >>

runloop ==
    << pc, result, params, stop, counters, window, loopvars, recovery,
       tracers, execution, store, logs, history, stages >>

\* ------------------------------------------------------------------------
\* State of event.cpp (src/README.md): the event ring set-up of a process
\* ------------------------------------------------------------------------
VARIABLES
    \* per process: position in init_execution_event_recorder, pending or
    \* returned code, number of calls made
    rpc, rc, ncalls,
    \* the directory of the ring: file name -> inode, the inodes that are
    \* initialised event rings, and the holder of the flock on each inode
    dir, initialized, lock,
    \* per process: ring_fd of claim_event_ring_file, the init file
    \* descriptor (*init_ring_fd), signal mask and saved mask, the global
    \* recorder
    ring_fd, init_ring_fd, sigmask, old_mask, g_exec_event_recorder,
    \* the string given to try_parse_event_ring_config and what it returned
    config_input, config_result

ringvars ==
    << rpc, rc, ncalls, dir, initialized, lock, ring_fd, init_ring_fd,
       sigmask, old_mask, g_exec_event_recorder >>
cfgvars == << config_input, config_result >>

\* State of ExprAutoMutationAnalyzer.hpp (src/unnamed/part_002)
VARIABLES
    \* per Memoized cache: the three maps of struct Memoized; a key that a
    \* map does not hold is mapped to None, a stored value v to Some(v)
    Results, PointeeResults, FuncParmAnalyzer,
    \* FunctionParmMutationAnalyzer objects constructed so far (an object is
    \* known by its number), and the ones not destroyed
    constructed, alive,
    \* per cache: what was asked of it, in order, and what it handed back
    requests

memovars ==
    << Results, PointeeResults, FuncParmAnalyzer, constructed, alive,
       requests >>
event == << ringvars, cfgvars, memovars >>

vars == << runloop, event >>

\* the processes that set up a recorder on the same ring path; process p
\* has pid p
Procs == 1..NumProcs
\* the file names of the ring directory: ring_file_path, and for every pid
\* the init_file_path "<ring file name>.<pid>" (line 1019-1021)
RingPath == 0
InitPath(p) == p
Paths == {RingPath} \cup { InitPath(p) : p \in Procs }
\* no file under a name, and a descriptor that is -1 or closed
NoFile == -1
\* a ring file left at the ring path by a process that is gone, the file a
\* gone process with pid p left under its init name, and the file that
\* process p creates in its k-th call
ZombieRing == 0
Junk(p) == 100 + p
Inode(p, k) == 10 * p + k
Inodes ==
    {ZombieRing} \cup { Junk(p) : p \in Procs }
        \cup { Inode(p, k) : p \in Procs, k \in 1..MaxCalls }
\* the signals create_owned_event_ring_nointr blocks (lines 1061-1063) and
\* one it does not name
Blocked == {"SIGINT", "SIGTERM"}
InitialMasks == {{}, {"SIGINT"}, {"SIGTERM", "SIGUSR1"}}

\* no process has called into event.cpp
EventIdle(dirs, masks) ==
    /\ rpc = [p \in Procs |-> "idle"]
    /\ rc = [p \in Procs |-> ""]
    /\ ncalls = [p \in Procs |-> 0]
    /\ dir \in dirs
    /\ initialized = {ZombieRing}
    /\ lock = [f \in Inodes |-> 0]
    /\ ring_fd = [p \in Procs |-> NoFile]
    /\ init_ring_fd = [p \in Procs |-> NoFile]
    /\ sigmask \in [Procs -> masks]
    /\ old_mask = [p \in Procs |-> {}]
    /\ g_exec_event_recorder = [p \in Procs |-> NoFile]
\* no configuration string has been given
ConfigIdle(inputs) ==
    /\ config_input \in inputs
    /\ config_result = None
\* the ring directory with no file in it
EmptyDir == [n \in Paths |-> NoFile]
\* the Memoized caches (one per ExprAutoMutationAnalyzer, line 145), the
\* function declarations and the expressions of the translation unit, and
\* the statements a search can hand back (0 is nullptr: no mutation)
Caches == 1..NumCaches
Funcs == 1..NumFuncs
Exprs == 1..NumExprs
Stmts == {0, 1}
\* a DenseMap without entries
EmptyMap(keys) == [k \in keys |-> None]
\* Memoized as the constructor of ExprAutoMutationAnalyzer leaves it
\* (Memorized(), line 95): three empty maps, no analyzer constructed
MemoIdle ==
    /\ Results = [c \in Caches |-> EmptyMap(Exprs)]
    /\ PointeeResults = [c \in Caches |-> EmptyMap(Exprs)]
    /\ FuncParmAnalyzer = [c \in Caches |-> EmptyMap(Funcs)]
    /\ constructed = 0
    /\ alive = {}
    /\ requests = [c \in Caches |-> << >>]
\* the state of event.cpp in a program that only runs the run loop
EventUnused ==
    EventIdle({EmptyDir}, {{}}) /\ ConfigIdle({<< >>}) /\ MemoIdle

\* ------------------------------------------------------------------------
\* The state store (interface of Db)
\* ------------------------------------------------------------------------
\* BlockHeader{}
EmptyHeader == Header(0, ZeroHash, 0, "root_none")
\* db.read_eth_header(): the header the store holds for the height of the
\* scope that is set
read_eth_header(scope, headers) ==
    IF scope[1] \in DOMAIN headers THEN headers[scope[1]] ELSE EmptyHeader

\* the header the store holds for the block before the start height: it was
\* committed by an earlier call, its parent hash is some earlier hash
PriorHeader(n) == Header(n, Keccak(EmptyHeader), 1, DeclaredRoot)

\* ------------------------------------------------------------------------
\* Entry of runloop_monad_ethblocks
\* ------------------------------------------------------------------------
\* line 293: the first height to execute is the caller's finalized_block_num,
\* any height the archive may hold, the genesis height 0 included
StartHeights == 0..MaxHeight
\* end_block_num: a height below the top of the archive, or the largest
\* uint64_t (the range without end)
EndHeights == (1..(MaxHeight - 1)) \cup {UINT64_MAX}

RunloopInit(starts, ends) ==
    /\ start \in starts
    /\ finalized_block_num = start
    /\ end_block_num \in ends
    /\ stop \in {0, 1}
    /\ enable_tracing \in BOOLEAN
    /\ batch_size = (IF end_block_num = UINT64_MAX THEN 1 ELSE BATCH_SIZE)
    /\ batch_num_blocks = 0
    /\ batch_num_txs = 0
    /\ total_gas = 0
    /\ batch_gas = 0
    /\ ntxs = 0
    /\ parent_block_id = ZeroBytes32
    /\ block_num = finalized_block_num
    /\ parent_senders_and_authorities = None
    /\ grandparent_senders_and_authorities = None
    /\ block = None
    /\ block_id = ZeroBytes32
    /\ senders_and_authorities = {}
    /\ process_result = None
    /\ recovered_senders = << >>
    /\ recovered_authorities = << >>
    /\ senders = << >>
    /\ set_local = {}
    /\ call_tracers = << >>
    /\ state_tracers = << >>
    /\ chain_context = None
    /\ receipts = << >>
    /\ commit_time = 0
    /\ output_header = None
    /\ block_state = {}
    /\ db_scope = None
    /\ db_headers = [n \in {start - 1} \cap Nat |-> PriorHeader(n)]
    /\ calls = << >>
    /\ block_hash_buffer = << >>
    /\ log = << >>
    /\ block_log = << >>
    /\ archive = << >>
    /\ fetched = << >>
    /\ stages = << >>
    /\ processed = << >>
    /\ declared_parent_hash = ZeroHash
    /\ result = None
    /\ pc = "seed_parent"

InitFrom(starts, ends) == RunloopInit(starts, ends) /\ EventUnused
Init == InitFrom(StartHeights, EndHeights)
\* ------------------------------------------------------------------------
\* The block archive (interface of BlockDb)
\* ------------------------------------------------------------------------
\* what block_db.get(n, block) can put into block: the archive files a
\* block under its own header number
ArchivedBlock(n, txs, g, ph) ==
    [header |-> Header(n, ph, g, DeclaredRoot), transactions |-> txs]
ArchiveBlocks(n, parent_hashes) ==
    { ArchivedBlock(n, txs, g, ph) :
        txs \in TxLists, g \in 1..MaxGas, ph \in parent_hashes }
\* the blocks the archive may hold below the start height: the seeding
\* reads them as they are, whatever the recovery of their senders gives
SeedBlocks(n) == ArchiveBlocks(n, {BogusHash})

\* what the history keeps of a block that was read: the parts the run loop
\* itself uses
Read(b) == [transactions |-> b.transactions, gas_used |-> b.header.gas_used]

\* a failed archive read that is handed to the caller as an error
Abort_ReturnsError(what) ==
    /\ pc' = "returned"
    /\ result' = Some([kind |-> "error", error |-> what, value |-> << >>])
\* MONAD_ASSERT_PRINTF(block_db.get(...)) failed: the process aborts
Abort(what) ==
    /\ pc' = "aborted"
    /\ result' = Some([kind |-> "abort", error |-> what, value |-> << >>])

\* ------------------------------------------------------------------------
\* Startup: seeding of the parent and grandparent sets
\* ------------------------------------------------------------------------
\* line 300: the parent set is seeded from block_num - 1
SeedsParent(n) == n > 1
\* lines 300 and 330: the grandparent set is seeded from block_num - 2
SeedsGrandparent(n) == n > 1 /\ n > 2

\* lines 300-363 as a whole: the window the seeding leaves for a start
\* height n, given the blocks the archive returns
SeedWindow(blocks, n) ==
    << IF SeedsParent(n) THEN Some(SeedSet(blocks[n - 1])) ELSE None,
       IF SeedsGrandparent(n) THEN Some(SeedSet(blocks[n - 2])) ELSE None >>

\* lines 300-328 when block_db.get(block_num - 1) succeeds, and the skip of
\* the whole if statement when block_num <= 1
SeedParent ==
    /\ pc = "seed_parent"
    /\ IF SeedsParent(block_num)
       THEN \E parent_block \in SeedBlocks(block_num - 1) :
              /\ parent_senders_and_authorities' = Some(SeedSet(parent_block))
              /\ archive' = archive @@ (block_num - 1 :> Read(parent_block))
              /\ pc' = IF SeedsGrandparent(block_num)
                       THEN "seed_grandparent" ELSE "loop"
       ELSE /\ pc' = "loop"
            /\ UNCHANGED << parent_senders_and_authorities, archive >>
    /\ UNCHANGED << result, params, stop, counters, loopvars, recovery,
                    tracers, execution, store, logs, stages, start,
                    declared_parent_hash, fetched, processed,
                    grandparent_senders_and_authorities, event >>

\* lines 302-305 when block_db.get(block_num - 1) fails
SeedParentMissing ==
    /\ pc = "seed_parent"
    /\ SeedsParent(block_num)
    /\ Abort("Could not query from blockdb for parent")
    /\ UNCHANGED << params, stop, counters, window, loopvars, recovery,
                    tracers, execution, store, logs, history, stages, event >>

\* lines 330-362 when block_db.get(block_num - 2) succeeds
SeedGrandparent ==
    /\ pc = "seed_grandparent"
    /\ \E grandparent_block \in SeedBlocks(block_num - 2) :
          /\ grandparent_senders_and_authorities' =
                Some(SeedSet(grandparent_block))
          /\ archive' = archive @@ (block_num - 2 :> Read(grandparent_block))
    /\ pc' = "loop"
    /\ UNCHANGED << result, params, stop, counters, loopvars, recovery,
                    tracers, execution, store, logs, stages, start,
                    declared_parent_hash, fetched, processed,
                    parent_senders_and_authorities, event >>

\* lines 332-335 when block_db.get(block_num - 2) fails
SeedGrandparentMissing ==
    /\ pc = "seed_grandparent"
    /\ Abort("Could not query from blockdb for grandparent")
    /\ UNCHANGED << params, stop, counters, window, loopvars, recovery,
                    tracers, execution, store, logs, history, stages, event >>

\* ------------------------------------------------------------------------
\* The loop head and the archive read
\* ------------------------------------------------------------------------
\* a loop condition that does not look at stop
LoopCondition_IgnoresStop ==
    /\ pc = "loop"
    /\ pc' = IF block_num <= end_block_num THEN "fetch" ELSE "flush"
    /\ UNCHANGED << result, params, stop, counters, window, loopvars,
                    recovery, tracers, execution, store, logs, history,
                    stages, event >>

\* a loop condition that leaves the end height out of the range
LoopCondition_ExclusiveEnd ==
    /\ pc = "loop"
    /\ pc' = IF block_num < end_block_num /\ stop = 0
             THEN "fetch" ELSE "flush"
    /\ UNCHANGED << result, params, stop, counters, window, loopvars,
                    recovery, tracers, execution, store, logs, history,
                    stages, event >>

\* line 365: the loop condition, the one place that reads stop
LoopCondition ==
    /\ pc = "loop"
    /\ pc' = IF block_num <= end_block_num /\ stop = 0
             THEN "fetch" ELSE "flush"
    /\ UNCHANGED << result, params, stop, counters, window, loopvars,
                    recovery, tracers, execution, store, logs, history,
                    stages, event >>

\* lines 366-376 when block_db.get(block_num) succeeds with one of the
\* given blocks
FetchFrom(blocks) ==
    /\ pc = "fetch"
    /\ \E b \in blocks :
          /\ block' = Some(b)
          /\ block_id' = Bytes32(b.header.number)
          /\ declared_parent_hash' = b.header.parent_hash
          /\ archive' = archive @@ (block_num :> Read(b))
    /\ senders_and_authorities' = {}
    /\ fetched' = Append(fetched, block_num)
    /\ stages' = << >>
    /\ block_log' = << >>
    /\ pc' = "static_validate_header"
    /\ UNCHANGED << result, params, stop, counters, window, parent_block_id,
                    block_num, process_result, recovery, tracers, execution,
                    store, log, start, processed, event >>

\* the archive holds a block that declares a wrong parent hash or the
\* right one
Fetch ==
    /\ block_num <= MaxHeight
    /\ FetchFrom(ArchiveBlocks(block_num,
                     {BogusHash,
                      Keccak(read_eth_header(<< Uint64Dec(block_num) >>,
                                             db_headers))}))

\* lines 367-370 when block_db.get(block_num) fails: the height is not in
\* the archive
FetchMissing ==
    /\ pc = "fetch"
    /\ Abort("Could not query from blockdb")
    /\ UNCHANGED << params, stop, counters, window, loopvars, recovery,
                    tracers, execution, store, logs, history, stages, event >>
\* ------------------------------------------------------------------------
\* process_monad_block, stage by stage
\* ------------------------------------------------------------------------
Blk == value(block)
NumTxs == Len(Blk.transactions)

\* the stage table with finalization moved in front of the output-header
\* check
StageAfter_FinalizeUnverified(at) ==
    CASE at = "static_validate_header" -> "static_validate_block"
      [] at = "static_validate_block" -> "recover"
      [] at = "recover" -> "check_senders"
      [] at = "check_senders" -> "static_validate_monad_body"
      [] at = "static_validate_monad_body" -> "alloc_tracers"
      [] at = "alloc_tracers" -> "build_context"
      [] at = "build_context" -> "set_scope"
      [] at = "set_scope" -> "execute_block"
      [] at = "execute_block" -> "commit"
      [] at = "commit" -> "finalize"
      [] at = "finalize" -> "validate_output_header"
      [] at = "validate_output_header" -> "update_verified_block"
      [] at = "update_verified_block" -> "block_hash_buffer_set"
      [] at = "block_hash_buffer_set" -> "log_metrics"
      [] at = "log_metrics" -> "try"

\* an order in which the static block validation comes after the store's
\* scope was set
StageAfter_ValidatesBlockLate(at) ==
    CASE at = "static_validate_header" -> "recover"
      [] at = "recover" -> "check_senders"
      [] at = "check_senders" -> "static_validate_monad_body"
      [] at = "static_validate_monad_body" -> "alloc_tracers"
      [] at = "alloc_tracers" -> "build_context"
      [] at = "build_context" -> "set_scope"
      [] at = "set_scope" -> "static_validate_block"
      [] at = "static_validate_block" -> "execute_block"
      [] at = "execute_block" -> "commit"
      [] at = "commit" -> "validate_output_header"
      [] at = "validate_output_header" -> "finalize"
      [] at = "finalize" -> "update_verified_block"
      [] at = "update_verified_block" -> "block_hash_buffer_set"
      [] at = "block_hash_buffer_set" -> "log_metrics"
      [] at = "log_metrics" -> "try"

\* an order in which the verified watermark is moved before the block is
\* finalized
StageAfter_VerifiedBeforeFinalize(at) ==
    CASE at = "static_validate_header" -> "static_validate_block"
      [] at = "static_validate_block" -> "recover"
      [] at = "recover" -> "check_senders"
      [] at = "check_senders" -> "static_validate_monad_body"
      [] at = "static_validate_monad_body" -> "alloc_tracers"
      [] at = "alloc_tracers" -> "build_context"
      [] at = "build_context" -> "set_scope"
      [] at = "set_scope" -> "execute_block"
      [] at = "execute_block" -> "commit"
      [] at = "commit" -> "validate_output_header"
      [] at = "validate_output_header" -> "update_verified_block"
      [] at = "update_verified_block" -> "finalize"
      [] at = "finalize" -> "block_hash_buffer_set"
      [] at = "block_hash_buffer_set" -> "log_metrics"
      [] at = "log_metrics" -> "try"

\* an order in which the call returns success once the output header was
\* verified, with the finalization left for later
StageAfter_ReturnsUnfinalized(at) ==
    CASE at = "static_validate_header" -> "static_validate_block"
      [] at = "static_validate_block" -> "recover"
      [] at = "recover" -> "check_senders"
      [] at = "check_senders" -> "static_validate_monad_body"
      [] at = "static_validate_monad_body" -> "alloc_tracers"
      [] at = "alloc_tracers" -> "build_context"
      [] at = "build_context" -> "set_scope"
      [] at = "set_scope" -> "execute_block"
      [] at = "execute_block" -> "commit"
      [] at = "commit" -> "validate_output_header"
      [] at = "validate_output_header" -> "log_metrics"
      [] at = "finalize" -> "update_verified_block"
      [] at = "update_verified_block" -> "block_hash_buffer_set"
      [] at = "block_hash_buffer_set" -> "log_metrics"
      [] at = "log_metrics" -> "try"

\* lines 98-269: where control goes when the stage at a position succeeded
StageAfter(at) ==
    CASE at = "static_validate_header" -> "static_validate_block"
      [] at = "static_validate_block" -> "recover"
      [] at = "recover" -> "check_senders"
      [] at = "check_senders" -> "static_validate_monad_body"
      [] at = "static_validate_monad_body" -> "alloc_tracers"
      [] at = "alloc_tracers" -> "build_context"
      [] at = "build_context" -> "set_scope"
      [] at = "set_scope" -> "execute_block"
      [] at = "execute_block" -> "commit"
      [] at = "commit" -> "validate_output_header"
      [] at = "validate_output_header" -> "finalize"
      [] at = "finalize" -> "update_verified_block"
      [] at = "update_verified_block" -> "block_hash_buffer_set"
      [] at = "block_hash_buffer_set" -> "log_metrics"
      [] at = "log_metrics" -> "try"

\* BOOST_OUTCOME_TRY inside process_monad_block found an error: the call
\* returns it
ReturnError(e) ==
    /\ process_result' = Some(e)
    /\ pc' = "try"

\* a stage that only asks a validator: either it passes, or the call
\* returns the validator's error
Validation(at, error) ==
    /\ pc = at
    /\ stages' = Append(stages, at)
    /\ \E passes \in BOOLEAN :
          IF passes
          THEN pc' = StageAfter(at) /\ UNCHANGED process_result
          ELSE ReturnError(error)
    /\ UNCHANGED << result, params, stop, counters, window, parent_block_id,
                    block_num, block, block_id, senders_and_authorities,
                    recovery, tracers, execution, store, logs, history,
                    event >>

\* line 102
StaticValidateHeader ==
    Validation("static_validate_header", "InvalidHeader")

\* line 103
StaticValidateBlock ==
    Validation("static_validate_block", "InvalidBlock")

\* lines 106-113
Recover ==
    /\ pc = "recover"
    /\ stages' = Append(stages, "recover")
    /\ recovered_senders' = recover_senders(Blk.transactions)
    /\ recovered_authorities' = recover_authorities(Blk.transactions)
    /\ pc' = StageAfter("recover")
    /\ UNCHANGED << result, params, stop, counters, window, loopvars, senders,
                    set_local, tracers, execution, store, logs, history,
                    event >>

\* the sender loop without its else branch, as the startup seeding has it
CheckSenders_WithoutElse ==
    /\ pc = "check_senders"
    /\ stages' = Append(stages, "check_senders")
    /\ senders' = SeedSenders(recovered_senders)
    /\ pc' = StageAfter("check_senders")
    /\ UNCHANGED << result, params, stop, counters, window, loopvars,
                    recovered_senders, recovered_authorities, set_local,
                    tracers, execution, store, logs, history, event >>

\* lines 114-122
CheckSenders ==
    /\ pc = "check_senders"
    /\ stages' = Append(stages, "check_senders")
    /\ IF FirstMissingSender(recovered_senders) = 0
       THEN /\ senders' = [i \in 1..Len(recovered_senders) |->
                              value(recovered_senders[i])]
            /\ pc' = StageAfter("check_senders")
            /\ UNCHANGED process_result
       ELSE /\ ReturnError("MissingSender")
            /\ UNCHANGED senders
    /\ UNCHANGED << result, params, stop, counters, window, parent_block_id,
                    block_num, block, block_id, senders_and_authorities,
                    recovered_senders, recovered_authorities, set_local,
                    tracers, execution, store, logs, history, event >>

\* lines 123-136
StaticValidateMonadBody ==
    /\ pc = "static_validate_monad_body"
    /\ stages' = Append(stages, "static_validate_monad_body")
    /\ set_local' = InsertAll(senders, recovered_authorities)
    /\ \E passes \in BOOLEAN :
          IF passes
          THEN /\ pc' = StageAfter("static_validate_monad_body")
               /\ UNCHANGED process_result
          ELSE ReturnError("InvalidMonadBody")
    /\ UNCHANGED << result, params, stop, counters, window, parent_block_id,
                    block_num, block, block_id, senders_and_authorities,
                    recovered_senders, recovered_authorities, senders,
                    tracers, execution, store, logs, history, event >>

\* lines 145-150: the call tracer made for a transaction
MakeCallTracer(flag) == IF flag THEN "CallTracer" ELSE "NoopCallTracer"
\* lines 151-152: the state tracer made for a transaction is constructed
\* from std::monostate, whatever the flag
MakeStateTracer(flag) == "StateTracer{std::monostate}"

\* lines 138-153
AllocTracers ==
    /\ pc = "alloc_tracers"
    /\ stages' = Append(stages, "alloc_tracers")
    /\ call_tracers' = [i \in 1..NumTxs |-> MakeCallTracer(enable_tracing)]
    /\ state_tracers' =
          [i \in 1..NumTxs |-> MakeStateTracer(enable_tracing)]
    /\ pc' = StageAfter("alloc_tracers")
    /\ UNCHANGED << result, params, stop, counters, window, loopvars,
                    recovery, execution, store, logs, history, event >>

\* a context step that writes the block's set into the parent slot instead
\* of the out parameter
BuildContext_WritesParent ==
    /\ pc = "build_context"
    /\ stages' = Append(stages, "build_context")
    /\ parent_senders_and_authorities' = Some(set_local)
    /\ chain_context' =
          Some([grandparent_senders_and_authorities |->
                    grandparent_senders_and_authorities,
                parent_senders_and_authorities |->
                    parent_senders_and_authorities,
                senders_and_authorities |-> set_local,
                senders |-> senders,
                authorities |-> recovered_authorities])
    /\ pc' = StageAfter("build_context")
    /\ UNCHANGED << result, params, stop, counters,
                    grandparent_senders_and_authorities, loopvars, recovery,
                    tracers, receipts, commit_time, output_header,
                    block_state, store, logs, history, event >>

\* lines 155-163
BuildContext ==
    /\ pc = "build_context"
    /\ stages' = Append(stages, "build_context")
    /\ senders_and_authorities' = set_local
    /\ chain_context' =
          Some([grandparent_senders_and_authorities |->
                    grandparent_senders_and_authorities,
                parent_senders_and_authorities |->
                    parent_senders_and_authorities,
                senders_and_authorities |-> set_local,
                senders |-> senders,
                authorities |-> recovered_authorities])
    /\ pc' = StageAfter("build_context")
    /\ UNCHANGED << result, params, stop, counters, window, parent_block_id,
                    block_num, block, block_id, process_result, recovery,
                    tracers, receipts, commit_time, output_header,
                    block_state, store, logs, history, event >>
\* a parent hash that is left as the archived block declared it
LinkedParentHash_Declared(declared, stored) == declared
\* lines 168-169: the parent hash the block header gets, given the one it
\* declared and the header read from the store
LinkedParentHash(declared, stored) == Keccak(stored)

\* lines 167-169
SetScope ==
    /\ pc = "set_scope"
    /\ stages' = Append(stages, "set_scope")
    /\ db_scope' = << Uint64Dec(Blk.header.number), parent_block_id >>
    /\ calls' = Append(calls, << "set_block_and_prefix",
                                 Uint64Dec(Blk.header.number),
                                 parent_block_id >>)
    /\ block' = Some([Blk EXCEPT !.header.parent_hash =
                         LinkedParentHash(Blk.header.parent_hash,
                                          read_eth_header(db_scope',
                                                          db_headers))])
    /\ pc' = StageAfter("set_scope")
    /\ UNCHANGED << result, params, stop, counters, window, parent_block_id,
                    block_num, block_id, senders_and_authorities,
                    process_result, recovery, tracers, execution, db_headers,
                    block_hash_buffer, logs, history, event >>

\* an execution error that is noted while the call goes on to the commit
ExecuteBlockFailed_GoesOn ==
    /\ process_result' = Some("ExecutionError")
    /\ pc' = StageAfter("execute_block")
    /\ UNCHANGED receipts
\* line 171: BOOST_OUTCOME_TRY(receipts, execute_block(...)) when
\* execute_block has an error: the call returns it, no receipts exist
ExecuteBlockFailed ==
    /\ ReturnError("ExecutionError")
    /\ UNCHANGED receipts

\* lines 171-200, with the BlockState constructed at line 172
ExecuteBlock ==
    /\ pc = "execute_block"
    /\ stages' = Append(stages, "execute_block")
    /\ block_state' = block_state \cup {Blk.header.number}
    /\ calls' = Append(calls, << "execute_block", Blk.header,
                                 value(chain_context) >>)
    /\ \E succeeds \in BOOLEAN :
          IF succeeds
          THEN /\ receipts' = [i \in 1..NumTxs |-> "Receipt"]
               /\ pc' = StageAfter("execute_block")
               /\ UNCHANGED process_result
          ELSE ExecuteBlockFailed
    /\ UNCHANGED << result, params, stop, counters, window, parent_block_id,
                    block_num, block, block_id, senders_and_authorities,
                    recovery, tracers, chain_context, commit_time,
                    output_header, db_scope, db_headers, block_hash_buffer,
                    logs, history, event >>

\* BlockState::commit as the store shows it afterwards: the scope is the
\* committed block and its header is the given one with the state root the
\* store computed
CommittedHeader(header, root) == [header EXCEPT !.state_root = root]

\* what the clock can give for a commit: the largest duration that is not
\* slow and the smallest one that is
CommitTimes == {SLOW_COMMIT_MS, SLOW_COMMIT_MS + 1}
\* a slow commit that ends the block
AfterCommit_SlowFails(ms) ==
    IF ms > SLOW_COMMIT_MS THEN "try" ELSE StageAfter("commit")
\* lines 217-225: where process_monad_block goes on after a commit that
\* took ms milliseconds
AfterCommit(ms) == StageAfter("commit")

\* lines 203-222
Commit ==
    /\ pc = "commit"
    /\ stages' = Append(stages, "commit")
    /\ calls' = Append(calls, << "commit", block_id, Blk.header,
                                 Len(receipts) >>)
    /\ \E root \in StateRoots :
          db_headers' = (Blk.header.number :>
                            CommittedHeader(Blk.header, root)) @@ db_headers
    /\ db_scope' = << Blk.header.number, block_id >>
    /\ \E ms \in CommitTimes :
          /\ commit_time' = ms
          /\ pc' = AfterCommit(ms)
          /\ block_log' =
                IF ms > SLOW_COMMIT_MS
                THEN Append(block_log,
                            [kind |-> "slow_commit",
                             block_num |-> Blk.header.number,
                             nblocks |-> 0, ntxs |-> 0, gas |-> 0])
                ELSE block_log
    /\ UNCHANGED << result, params, stop, counters, window, loopvars,
                    recovery, tracers, chain_context, receipts, output_header,
                    block_state, block_hash_buffer, log, history, event >>

\* validate_output_header(input, output): the fields execution fills in
\* must agree
validate_output_header(input, output) ==
    /\ input.gas_used = output.gas_used
    /\ input.state_root = output.state_root

\* a verification whose outcome is not looked at
TryOutputHeader_Ignored(valid) ==
    /\ pc' = StageAfter("validate_output_header")
    /\ UNCHANGED process_result
\* line 225: BOOST_OUTCOME_TRY(validate_output_header(...))
TryOutputHeader(valid) ==
    IF valid
    THEN /\ pc' = StageAfter("validate_output_header")
         /\ UNCHANGED process_result
    ELSE ReturnError("OutputHeaderMismatch")

\* lines 224-225
ValidateOutputHeader ==
    /\ pc = "validate_output_header"
    /\ stages' = Append(stages, "validate_output_header")
    /\ output_header' = Some(read_eth_header(db_scope, db_headers))
    /\ TryOutputHeader(validate_output_header(Blk.header,
                                              value(output_header')))
    /\ UNCHANGED << result, params, stop, counters, window, parent_block_id,
                    block_num, block, block_id, senders_and_authorities,
                    recovery, tracers, chain_context, receipts, commit_time,
                    block_state, store, logs, history, event >>

\* line 229
Finalize ==
    /\ pc = "finalize"
    /\ stages' = Append(stages, "finalize")
    /\ calls' = Append(calls, << "finalize", Blk.header.number, block_id >>)
    /\ pc' = StageAfter("finalize")
    /\ UNCHANGED << result, params, stop, counters, window, loopvars,
                    recovery, tracers, execution, db_scope, db_headers,
                    block_hash_buffer, logs, history, event >>

\* line 230
UpdateVerifiedBlock ==
    /\ pc = "update_verified_block"
    /\ stages' = Append(stages, "update_verified_block")
    /\ calls' = Append(calls, << "update_verified_block",
                                 Blk.header.number >>)
    /\ pc' = StageAfter("update_verified_block")
    /\ UNCHANGED << result, params, stop, counters, window, loopvars,
                    recovery, tracers, execution, db_scope, db_headers,
                    block_hash_buffer, logs, history, event >>

\* lines 231-233
BlockHashBufferSet ==
    /\ pc = "block_hash_buffer_set"
    /\ stages' = Append(stages, "block_hash_buffer_set")
    /\ block_hash_buffer' =
          Append(block_hash_buffer,
                 << Blk.header.number, Keccak(value(output_header)) >>)
    /\ pc' = StageAfter("block_hash_buffer_set")
    /\ UNCHANGED << result, params, stop, counters, window, loopvars,
                    recovery, tracers, execution, db_scope, db_headers, calls,
                    logs, history, event >>

\* lines 236-268
LogMetrics ==
    /\ pc = "log_metrics"
    /\ stages' = Append(stages, "log_metrics")
    /\ block_log' = Append(block_log,
                           [kind |-> "exec_block",
                            block_num |-> Blk.header.number,
                            nblocks |-> 1, ntxs |-> NumTxs,
                            gas |-> value(output_header).gas_used,
                            cmt |-> commit_time])
    /\ processed' = Append(processed, Blk.header.number)
    /\ process_result' = Some("success")
    /\ pc' = StageAfter("log_metrics")
    /\ UNCHANGED << result, params, stop, counters, window, parent_block_id,
                    block_num, block, block_id, senders_and_authorities,
                    recovery, tracers, execution, store, log, start,
                    declared_parent_hash, archive, fetched, event >>
\* ------------------------------------------------------------------------
\* The rest of the loop body and the return
\* ------------------------------------------------------------------------
\* the locals of process_monad_block end with the call
ProcessLocalsGone ==
    /\ recovered_senders' = << >>
    /\ recovered_authorities' = << >>
    /\ senders' = << >>
    /\ set_local' = {}
    /\ call_tracers' = << >>
    /\ state_tracers' = << >>
    /\ chain_context' = None
    /\ receipts' = << >>
    /\ commit_time' = 0
    /\ output_header' = None
    /\ block_state' = block_state \ {Blk.header.number}

\* lines 377-397 with an error that is dropped: the loop goes on to the
\* next height
Try_SkipsBlock ==
    /\ pc = "try"
    /\ IF value(process_result) = "success"
       THEN /\ pc' = "account"
            /\ UNCHANGED << block_num, process_result >>
       ELSE /\ pc' = "loop"
            /\ block_num' = Uint64Inc(block_num)
            /\ process_result' = None
    /\ ProcessLocalsGone
    /\ UNCHANGED << result, params, stop, counters, window, parent_block_id,
                    block, block_id, senders_and_authorities, store, logs,
                    history, stages, event >>

\* lines 377-397: BOOST_OUTCOME_TRY on the result of process_monad_block
Try ==
    /\ pc = "try"
    /\ IF value(process_result) = "success"
       THEN /\ pc' = "account"
            /\ UNCHANGED result
       ELSE /\ pc' = "returned"
            /\ result' = Some([kind |-> "error",
                               error |-> value(process_result),
                               value |-> << >>])
    /\ ProcessLocalsGone
    /\ UNCHANGED << params, stop, counters, window, loopvars, store, logs,
                    history, stages, event >>

\* log_tps, lines 58-80: the line it writes
log_tps(num, nblocks, txs, gas) ==
    [kind |-> "tps", block_num |-> num, nblocks |-> nblocks, ntxs |-> txs,
     gas |-> gas]

\* a counter that is assigned where it should be added to
CountTxs_Assigns(counter, b) == Len(b.transactions)
\* lines 399-400: a block adds its transaction count to a counter
CountTxs(counter, b) == counter + Len(b.transactions)
\* lines 401-402: a block adds the gas_used of its header to a counter
CountGas(counter, b) == counter + b.header.gas_used
\* lines 418-420: the new (parent, grandparent) pair after a block whose
\* set is current
Advance(parent, current) == << Some(current), parent >>

\* a batch that ends when it holds batch_size blocks
BatchEnds_ByCount(num, size, nblocks) == nblocks = size
\* line 405: the batch ends with a block whose height is a multiple of the
\* batch size
BatchEnds(num, size, nblocks) == num % size = 0

\* lines 399-423
Account ==
    /\ pc = "account"
    /\ ntxs' = CountTxs(ntxs, Blk)
    /\ total_gas' = CountGas(total_gas, Blk)
    /\ IF BatchEnds(block_num, batch_size, batch_num_blocks + 1)
       THEN /\ log' = Append(log, log_tps(block_num, batch_num_blocks + 1,
                                          CountTxs(batch_num_txs, Blk),
                                          CountGas(batch_gas, Blk)))
            /\ batch_num_blocks' = 0
            /\ batch_num_txs' = 0
            /\ batch_gas' = 0
       ELSE /\ batch_num_txs' = CountTxs(batch_num_txs, Blk)
            /\ batch_gas' = CountGas(batch_gas, Blk)
            /\ batch_num_blocks' = batch_num_blocks + 1
            /\ UNCHANGED log
    /\ parent_senders_and_authorities' =
          Advance(parent_senders_and_authorities, senders_and_authorities)[1]
    /\ grandparent_senders_and_authorities' =
          Advance(parent_senders_and_authorities, senders_and_authorities)[2]
    /\ parent_block_id' = block_id
    /\ block_num' = Uint64Inc(block_num)
    /\ block' = None
    /\ block_id' = ZeroBytes32
    /\ senders_and_authorities' = {}
    /\ process_result' = None
    /\ declared_parent_hash' = ZeroHash
    /\ pc' = "loop"
    /\ UNCHANGED << result, params, stop, batch_size, recovery, tracers,
                    execution, store, block_log, start, archive, fetched,
                    processed, stages, event >>

\* a watermark left at the last height processed
Watermark_LastProcessed(next) == Uint64Dec(next)
\* line 429: what the caller's finalized_block_num becomes on a normal
\* return, given the loop's block_num
Watermark(next) == next

\* a flush that is made whether or not a batch is pending
FlushPending_Always(nblocks) == TRUE
\* a flush that is never made
FlushPending_Never(nblocks) == FALSE
\* line 425: the partial batch is flushed when it holds a block
FlushPending(nblocks) == nblocks > 0

\* lines 425-430
Finish ==
    /\ pc = "flush"
    /\ log' = IF FlushPending(batch_num_blocks)
              THEN Append(log, log_tps(block_num, batch_num_blocks,
                                       batch_num_txs, batch_gas))
              ELSE log
    /\ finalized_block_num' = Watermark(block_num)
    /\ result' = Some([kind |-> "ok", error |-> "",
                       value |-> << ntxs, total_gas >>])
    /\ pc' = "returned"
    /\ UNCHANGED << end_block_num, enable_tracing, stop, counters, window,
                    loopvars, recovery, tracers, execution, store, block_log,
                    history, stages, event >>

\* the stop flag is set from outside (a signal handler) at any moment of
\* the call
SetStop ==
    /\ pc \notin {"returned", "aborted"}
    /\ stop = 0
    /\ stop' = 1
    /\ UNCHANGED << pc, result, params, counters, window, loopvars, recovery,
                    tracers, execution, store, logs, history, stages, event >>

Next ==
    \/ SeedParent
    \/ SeedParentMissing
    \/ SeedGrandparent
    \/ SeedGrandparentMissing
    \/ LoopCondition
    \/ Fetch
    \/ FetchMissing
    \/ StaticValidateHeader
    \/ StaticValidateBlock
    \/ Recover
    \/ CheckSenders
    \/ StaticValidateMonadBody
    \/ AllocTracers
    \/ BuildContext
    \/ SetScope
    \/ ExecuteBlock
    \/ Commit
    \/ ValidateOutputHeader
    \/ Finalize
    \/ UpdateVerifiedBlock
    \/ BlockHashBufferSet
    \/ LogMetrics
    \/ Try
    \/ Account
    \/ Finish
    \/ SetStop

Spec == Init /\ [][Next]_vars
\* ------------------------------------------------------------------------
\* Vocabulary of the properties
\* ------------------------------------------------------------------------
Returned == pc = "returned"
ReturnedError(e) ==
    /\ Returned
    /\ value(result).kind = "error"
    /\ value(result).error = e
ReturnedOk == Returned /\ value(result).kind = "ok"
\* process_monad_block has returned e for the block in progress
ProcessReturned(e) == has_value(process_result) /\ value(process_result) = e

\* the calls of one kind made on the collaborators, in order
CallsOf(kind) == SelectSeq(calls, LAMBDA c : c[1] = kind)
\* the height of the block a recorded call was made for
CallHeight(c) ==
    CASE c[1] = "set_block_and_prefix" -> Uint64Inc(c[2])
      [] c[1] = "execute_block" -> c[2].number
      [] c[1] = "commit" -> c[3].number
      [] c[1] = "finalize" -> c[2]
      [] c[1] = "update_verified_block" -> c[2]
\* the kinds of call made for the block of height n
KindsFor(n) == { calls[i][1] : i \in { j \in DOMAIN calls :
                                          CallHeight(calls[j]) = n } }
HashHeights == { block_hash_buffer[i][1] : i \in DOMAIN block_hash_buffer }
FinalizedHeights ==
    [i \in DOMAIN CallsOf("finalize") |-> CallsOf("finalize")[i][2]]
\* start, start + 1, ... of a given length
HeightsFrom(first, len) == [i \in 1..len |-> first + i - 1]
\* the addresses recovered for a list of transactions
RecoveredAddresses(txs) ==
    { a \in Addresses \cup {ZeroAddress} :
        \E i \in DOMAIN txs :
            \/ txs[i].sender = Some(a)
            \/ \E k \in DOMAIN txs[i].authorities :
                  txs[i].authorities[k] = Some(a) }
\* the block in progress has a transaction whose sender was not recovered
SenderMissing ==
    /\ has_value(block)
    /\ \E i \in DOMAIN Blk.transactions :
          Blk.transactions[i].sender = None
InStages(stage) == \E i \in DOMAIN stages : stages[i] = stage
\* ------------------------------------------------------------------------
\* Properties
\* ------------------------------------------------------------------------
\* C1: once recovery has run on a block that has a transaction without a
\* recovered sender, process_monad_block returns MissingSender and the run
\* loop hands it on; for that block there is no set-scope, execute_block,
\* commit, finalize or update_verified_block call and no hash-buffer entry,
\* no receipts exist and the out AddressSet is as the caller made it.
C1_MissingSenderAbortsBlock ==
    (SenderMissing /\ InStages("recover")) =>
        /\ pc \in {"check_senders", "try", "returned"}
        /\ (pc # "check_senders" => ProcessReturned("MissingSender"))
        /\ (Returned => ReturnedError("MissingSender"))
        /\ KindsFor(Blk.header.number) = {}
        /\ Blk.header.number \notin HashHeights
        /\ receipts = << >>
        /\ senders_and_authorities = {}

\* the second transaction of a block is the one without a sender, after an
\* earlier block went through
C1_Witness ==
    /\ ReturnedError("MissingSender")
    /\ Len(Blk.transactions) = 2
    /\ Blk.transactions[1].sender # None
    /\ Len(processed) >= 1
\* C2: the heights the loop fetches are start, start + 1, ... with no gap
\* and no repeat, and the heights given to db.finalize are that same
\* sequence: all of it between two blocks and after a normal return, all
\* of it but the block in progress otherwise.
C2_HeightsIncreaseWithoutGap ==
    /\ fetched = HeightsFrom(start, Len(fetched))
    /\ FinalizedHeights = HeightsFrom(start, Len(FinalizedHeights))
    /\ Len(FinalizedHeights) <= Len(fetched)
    /\ Len(fetched) <= Len(FinalizedHeights) + 1
    /\ (pc \in {"loop", "fetch", "flush"} \/ ReturnedOk) =>
          FinalizedHeights = fetched

\* two blocks fetched and finalized by a call that started above height 1
C2_Witness ==
    /\ ReturnedOk
    /\ start = 2
    /\ fetched = << 2, 3 >>
    /\ FinalizedHeights = << 2, 3 >>
RECURSIVE TxsOf(_)
\* transactions of the archived blocks at the given heights, added up
TxsOf(heights) ==
    IF heights = << >> THEN 0
    ELSE Len(archive[Head(heights)].transactions) + TxsOf(Tail(heights))
RECURSIVE GasOf(_)
\* header gas_used of the archived blocks at the given heights, added up
GasOf(heights) ==
    IF heights = << >> THEN 0
    ELSE archive[Head(heights)].gas_used + GasOf(Tail(heights))

\* C3: the pair a normal return hands back is (sum of the transaction
\* counts, sum of the header gas_used) over the blocks that were processed
\* successfully, each of which is one height counted once; the running
\* totals are these sums between any two blocks.
C3_TotalsAreSums ==
    /\ processed = HeightsFrom(start, Len(processed))
    /\ ReturnedOk =>
          value(result).value = << TxsOf(processed), GasOf(processed) >>
    /\ pc \in {"loop", "fetch", "flush"} =>
          /\ ntxs = TxsOf(processed)
          /\ total_gas = GasOf(processed)

\* two blocks of one and of two transactions were processed
C3_Witness ==
    /\ ReturnedOk
    /\ Len(processed) = 2
    /\ Len(archive[processed[1]].transactions) = 1
    /\ Len(archive[processed[2]].transactions) = 2
    /\ value(result).value = << 3, 2 >>

\* the stages in the order the claim gives them
StageOrder ==
    << "static_validate_header", "static_validate_block", "recover",
       "check_senders", "static_validate_monad_body", "alloc_tracers",
       "build_context", "set_scope", "execute_block", "commit",
       "validate_output_header", "finalize", "update_verified_block",
       "block_hash_buffer_set", "log_metrics" >>
\* the error with which a stage fails
ErrorOf(stage) ==
    CASE stage = "static_validate_header" -> "InvalidHeader"
      [] stage = "static_validate_block" -> "InvalidBlock"
      [] stage = "check_senders" -> "MissingSender"
      [] stage = "static_validate_monad_body" -> "InvalidMonadBody"
      [] stage = "execute_block" -> "ExecutionError"
      [] stage = "validate_output_header" -> "OutputHeaderMismatch"
      [] OTHER -> "none"

\* C4: the stages a block has gone through are an initial part of the fixed
\* order, each entered once and only after all before it succeeded; the
\* stage about to run is the next of the order; success is returned after
\* all of them, and an error is the error of the last stage run, which the
\* run loop returns for the block.
C4_StagesInOrder ==
    /\ Len(stages) <= Len(StageOrder)
    /\ stages = SubSeq(StageOrder, 1, Len(stages))
    /\ (\E i \in DOMAIN StageOrder : pc = StageOrder[i]) =>
          pc = StageOrder[Len(stages) + 1]
    /\ ProcessReturned("success") => stages = StageOrder
    /\ (has_value(process_result) /\ ~ProcessReturned("success")) =>
          /\ stages # << >>
          /\ value(process_result) = ErrorOf(stages[Len(stages)])
          /\ pc \in {"try", "returned"}
          /\ Returned => ReturnedError(value(process_result))

\* execution failed for a block after an earlier block went through: nine
\* stages ran and none after
C4_Witness ==
    /\ ReturnedError("ExecutionError")
    /\ stages = SubSeq(StageOrder, 1, 9)
    /\ Len(processed) >= 1

\* the AddressSet the code derives from the archived block at height n;
\* genesis and what is below it have none
SetOfHeight(n) ==
    IF n >= 1 THEN Some(SeedSet(archive[n])) ELSE None
\* the seeding is over and the loop has been entered
SeedingDone ==
    /\ pc \notin {"seed_parent", "seed_grandparent"}
    /\ pc = "aborted" =>
          value(result).error = "Could not query from blockdb"

\* C5 as claimed: from the end of seeding on, with block N the next or
\* current block, the parent set is the AddressSet of block N-1 and the
\* grandparent set that of block N-2, the execution context built for
\* block N holds these two, and both are absent below height 2.
C5_WindowHoldsTwoPrecedingBlocks ==
    SeedingDone =>
        /\ parent_senders_and_authorities = SetOfHeight(block_num - 1)
        /\ grandparent_senders_and_authorities = SetOfHeight(block_num - 2)
        /\ has_value(chain_context) =>
              /\ value(chain_context).parent_senders_and_authorities =
                    SetOfHeight(Blk.header.number - 1)
              /\ value(chain_context).grandparent_senders_and_authorities =
                    SetOfHeight(Blk.header.number - 2)
        /\ block_num < 2 =>
              /\ parent_senders_and_authorities = None
              /\ grandparent_senders_and_authorities = None

\* C6 as claimed: between two blocks of a run that started at height 0,
\* with H the next height, the parent and grandparent sets (and whether
\* each is present) are what the seeding produces for a start at H.
C6_SeedEqualsRunFromZero ==
    (start = 0 /\ pc = "loop") =>
        window = SeedWindow(archive, block_num)

\* ------------------------------------------------------------------------
\* Output-header verification and the execution error
\* ------------------------------------------------------------------------
\* the header the store holds for height n agrees with the header given to
\* the commit of height n
Verified(n) ==
    /\ n \in DOMAIN db_headers
    /\ \E i \in DOMAIN calls :
          /\ calls[i][1] = "commit"
          /\ CallHeight(calls[i]) = n
          /\ validate_output_header(calls[i][3], db_headers[n])
\* the calls and hash-buffer entries that follow the verification
AfterVerification == {"finalize", "update_verified_block"}

\* C7: every db.finalize(N), db.update_verified_block(N) and hash-buffer
\* entry for N exists only when the header read back from the store for N
\* passed validate_output_header, the stored hash is the hash of that
\* header, and when the verification of block N fails there is no
\* finalize, no update_verified_block and no hash-buffer entry for N.
C7_FinalizeOnlyAfterVerification ==
    /\ \A i \in DOMAIN calls :
          calls[i][1] \in AfterVerification => Verified(CallHeight(calls[i]))
    /\ \A i \in DOMAIN block_hash_buffer :
          /\ Verified(block_hash_buffer[i][1])
          /\ block_hash_buffer[i][2] =
                Keccak(db_headers[block_hash_buffer[i][1]])
    /\ ProcessReturned("OutputHeaderMismatch") =>
          /\ KindsFor(Blk.header.number) \cap AfterVerification = {}
          /\ Blk.header.number \notin HashHeights
          /\ ~Verified(Blk.header.number)

\* the verification of a block fails after an earlier block of the call
\* was verified, finalized and entered into the hash buffer
C7_Witness ==
    /\ ProcessReturned("OutputHeaderMismatch")
    /\ "commit" \in KindsFor(Blk.header.number)
    /\ Len(block_hash_buffer) >= 1
    /\ Len(CallsOf("finalize")) >= 1

\* C8 as claimed: a failed output-header verification is never handed to
\* the caller of runloop_monad_ethblocks as the error of its result.
C8_MismatchIsNotReturned ==
    ~ReturnedError("OutputHeaderMismatch")

\* C9: when execute_block fails for block N, process_monad_block returns
\* that error, the run loop hands it on, and there is no commit, finalize
\* or update_verified_block call and no hash-buffer entry for N; every
\* commit is given as many receipts as its block has transactions.
C9_ExecutionErrorCommitsNothing ==
    /\ ProcessReturned("ExecutionError") =>
          /\ pc \in {"try", "returned"}
          /\ (Returned => ReturnedError("ExecutionError"))
          /\ KindsFor(Blk.header.number) =
                {"set_block_and_prefix", "execute_block"}
          /\ Blk.header.number \notin HashHeights
    /\ \A i \in DOMAIN calls :
          calls[i][1] = "commit" =>
              calls[i][4] =
                  Len(archive[CallHeight(calls[i])].transactions)

\* execute_block fails after an earlier block of two transactions was
\* committed with two receipts
C9_Witness ==
    /\ ReturnedError("ExecutionError")
    /\ \E i \in DOMAIN calls :
          calls[i][1] = "commit" /\ calls[i][4] = MaxTxs

\* C10 as claimed: finalized_block_num never goes below its value at
\* entry, and whenever the call returns, with a value or with an error, it
\* is one more than the highest height given to db.finalize during the
\* call, or unchanged if there was none.
C10_WatermarkFollowsFinalize ==
    /\ finalized_block_num >= start
    /\ Returned =>
          finalized_block_num =
              IF Len(CallsOf("finalize")) = 0
              THEN start
              ELSE FinalizedHeights[Len(FinalizedHeights)] + 1
\* the last height that went through all stages of process_monad_block
LastProcessed == processed[Len(processed)]
\* process_monad_block has returned an error for the block in progress
ProcessFailed ==
    has_value(process_result) /\ value(process_result) # "success"

\* C11: after a normal return in which the last block processed had height
\* N, finalized_block_num is N + 1.
C11_NormalReturnLeavesNextHeight ==
    (ReturnedOk /\ Len(processed) >= 1) =>
        finalized_block_num = LastProcessed + 1

\* a normal return after two blocks
C11_Witness ==
    /\ ReturnedOk
    /\ Len(processed) = 2
    /\ finalized_block_num = start + 2

\* C12: when process_monad_block returns an error for block N, the run
\* loop returns that same error; N is the last height fetched, it was
\* fetched once, it is not among the processed heights, and the loop's
\* block_num stays at N; a height is fetched only when every height
\* fetched before it was processed with success.
C12_ErrorStopsTheLoop ==
    /\ ProcessFailed =>
          /\ pc \in {"try", "returned"}
          /\ (Returned => ReturnedError(value(process_result)))
          /\ fetched[Len(fetched)] = Blk.header.number
          /\ block_num = Blk.header.number
          /\ \A i \in 1..(Len(fetched) - 1) :
                fetched[i] < Blk.header.number
          /\ \A i \in DOMAIN processed : processed[i] # Blk.header.number
    /\ \A i \in 1..(Len(fetched) - 1) :
          \E k \in DOMAIN processed : processed[k] = fetched[i]

\* the monad body of the second block of a call is rejected and the call
\* has returned with that error while the range had a further height
C12_Witness ==
    /\ ReturnedError("InvalidMonadBody")
    /\ Len(processed) = 1
    /\ Len(fetched) = 2
    /\ block_num < end_block_num
    /\ stop = 0
\* the header given to a recorded execute_block or commit call
CallHeader(c) == IF c[1] = "commit" THEN c[3] ELSE c[2]

\* C13: the header given to execute_block and to commit for block N has as
\* parent hash the hash of the header the store holds for the scope set
\* for N, which is (N - 1, parent block id), and never the wrong hash a
\* block declared.
C13_ParentHashFromStore ==
    /\ \A i \in DOMAIN calls :
          calls[i][1] \in {"execute_block", "commit"} =>
              /\ CallHeader(calls[i]).parent_hash =
                    Keccak(read_eth_header(
                               << Uint64Dec(CallHeight(calls[i])) >>,
                               db_headers))
              /\ CallHeader(calls[i]).parent_hash # BogusHash
    /\ \A i \in DOMAIN calls :
          calls[i][1] = "set_block_and_prefix" =>
              calls[i][3] = IF CallHeight(calls[i]) = start
                            THEN ZeroBytes32
                            ELSE Bytes32(calls[i][2])

\* a block that declared a wrong parent hash was executed and committed
\* after an earlier block of the call
C13_Witness ==
    /\ has_value(block)
    /\ declared_parent_hash = BogusHash
    /\ {"execute_block", "commit"} \subseteq KindsFor(Blk.header.number)
    /\ Len(processed) >= 1
\* process_monad_block has returned the error of one of the two static
\* validations for the block in progress
StaticValidationFailed ==
    ProcessReturned("InvalidHeader") \/ ProcessReturned("InvalidBlock")

\* C14: when static header or block validation fails, process_monad_block
\* returns that error with no signature recovery done, no set-scope,
\* execute_block, commit, finalize or update_verified_block call and no
\* hash-buffer entry for the block, the block as it was read (its parent
\* hash the declared one) and the out AddressSet not written.
C14_StaticValidationFailsClean ==
    StaticValidationFailed =>
        /\ stages \in {<< "static_validate_header" >>,
                       << "static_validate_header",
                          "static_validate_block" >>}
        /\ ProcessReturned(ErrorOf(stages[Len(stages)]))
        /\ recovered_senders = << >>
        /\ recovered_authorities = << >>
        /\ KindsFor(Blk.header.number) = {}
        /\ Blk.header.number \notin HashHeights
        /\ Blk.header.parent_hash = declared_parent_hash
        /\ Read(Blk) = archive[Blk.header.number]
        /\ senders_and_authorities = {}

\* the static block validation rejects a two-transaction block that
\* declared a wrong parent hash, after an earlier block went through
C14_Witness ==
    /\ ProcessReturned("InvalidBlock")
    /\ pc = "try"
    /\ declared_parent_hash = BogusHash
    /\ Len(Blk.transactions) = 2
    /\ Len(processed) >= 1
\* the positions inside one turn of the loop body, from the archive read
\* to the end of the accounting
BlockPcs ==
    { StageOrder[i] : i \in DOMAIN StageOrder } \cup
        {"fetch", "try", "account"}
\* a step of the program itself (any step but the setting of stop)
ProgramStep ==
    \/ Fetch \/ FetchMissing \/ StaticValidateHeader \/ StaticValidateBlock
    \/ Recover \/ CheckSenders \/ StaticValidateMonadBody \/ AllocTracers
    \/ BuildContext \/ SetScope \/ ExecuteBlock \/ Commit
    \/ ValidateOutputHeader \/ Finalize \/ UpdateVerifiedBlock
    \/ BlockHashBufferSet \/ LogMetrics \/ Try \/ Account

\* C15: stop is read only in the loop condition. Setting it changes
\* nothing else; a block in progress has a next step whatever stop is, and
\* its steps lead only to the next position of the block, to the return of
\* its error, to the abort of a failed archive read, or from the
\* accounting to the loop condition; the loop condition with stop set
\* leads to the final flush and not to a fetch.
C15_StopOnlyBetweenBlocks ==
    /\ [](pc \in BlockPcs => ENABLED ProgramStep)
    /\ [][/\ stop' # stop =>
                UNCHANGED << pc, result, params, counters, window, loopvars,
                             recovery, tracers, execution, store, logs,
                             history, stages >>
          /\ (pc \in BlockPcs /\ pc' # pc) =>
                /\ pc' \in BlockPcs \cup {"loop", "returned", "aborted"}
                /\ pc' = "loop" => pc = "account"
                /\ pc' = "returned" => pc = "try" /\ ProcessFailed
                /\ pc' = "aborted" => pc = "fetch"
                /\ (pc' \in BlockPcs /\ pc \notin {"fetch", "try"}) =>
                      pc' \in {StageAfter(pc), "try"}
          /\ (pc = "loop" /\ stop # 0 /\ pc' # pc) => pc' = "flush"
         ]_vars

\* the call has returned normally because stop was set during the last
\* block it processed: the range and the archive had a further height
C15_Witness ==
    /\ ReturnedOk
    /\ stop = 1
    /\ Len(processed) = 2
    /\ block_num <= end_block_num
    /\ block_num <= MaxHeight
\* ------------------------------------------------------------------------
\* Termination
\* ------------------------------------------------------------------------
\* a step of the thread that runs the call: the function is sequential
\* code, so whenever it has a next step it takes one (the collaborators'
\* calls are taken to return)
ThreadStep ==
    \/ SeedParent \/ SeedParentMissing \/ SeedGrandparent
    \/ SeedGrandparentMissing \/ LoopCondition \/ ProgramStep \/ Finish
\* calls over a range with a finite end below the top of the archive, the
\* thread always going on
LiveSpec ==
    /\ InitFrom(StartHeights, {MaxHeight - 1})
    /\ [][Next]_vars
    /\ WF_vars(ThreadStep)

\* the call has ended, by a return or by an abort
Terminated == pc \in {"returned", "aborted"}

StageErrors ==
    { ErrorOf(StageOrder[i]) : i \in DOMAIN StageOrder } \ {"none"}
Aborted(what) ==
    /\ pc = "aborted"
    /\ value(result) = [kind |-> "abort", error |-> what, value |-> << >>]

\* C17: a failed archive read ends the process by an assertion and is
\* never the error of a returned Result. After a failed read of height
\* H - 1 or H - 2 at startup nothing was fetched or called; after a failed
\* read of height N in the loop no stage ran and no call was made for N.
\* The program gets past a read only with the block read.
C17_ArchiveFailureAborts ==
    /\ pc = "aborted" =>
          \/ /\ Aborted("Could not query from blockdb for parent")
             /\ SeedsParent(start)
             /\ (start - 1) \notin DOMAIN archive
             /\ fetched = << >> /\ calls = << >>
          \/ /\ Aborted("Could not query from blockdb for grandparent")
             /\ SeedsGrandparent(start)
             /\ (start - 2) \notin DOMAIN archive
             /\ fetched = << >> /\ calls = << >>
          \/ /\ Aborted("Could not query from blockdb")
             /\ block_num \notin DOMAIN archive
             /\ \A i \in DOMAIN fetched : fetched[i] # block_num
             /\ KindsFor(block_num) = {}
             /\ block_num \notin HashHeights
             /\ block = None
    /\ Returned =>
          /\ value(result).kind \in {"ok", "error"}
          /\ value(result).kind = "error" =>
                value(result).error \in StageErrors
    /\ (SeedingDone /\ pc # "aborted" /\ SeedsParent(start)) =>
          (start - 1) \in DOMAIN archive
    /\ (SeedingDone /\ pc # "aborted" /\ SeedsGrandparent(start)) =>
          (start - 2) \in DOMAIN archive
    /\ has_value(block) => Blk.header.number \in DOMAIN archive

\* the archive read of the third height of a call fails after two blocks
\* were processed
C17_Witness ==
    /\ Aborted("Could not query from blockdb")
    /\ Len(processed) = 2
    /\ block_num = start + 2
\* ------------------------------------------------------------------------
\* Contents of the AddressSets
\* ------------------------------------------------------------------------
\* C18 as claimed: every AddressSet of the window, seeded at startup or
\* built for a processed block, and the set written for the block in
\* progress, holds exactly the addresses that are the recovered sender or
\* a recovered authority of a transaction of its block.
C18_SetsHoldRecoveredAddresses ==
    SeedingDone =>
        /\ has_value(parent_senders_and_authorities) =>
              value(parent_senders_and_authorities) =
                  RecoveredAddresses(archive[block_num - 1].transactions)
        /\ has_value(grandparent_senders_and_authorities) =>
              value(grandparent_senders_and_authorities) =
                  RecoveredAddresses(archive[block_num - 2].transactions)
        /\ InStages("build_context") =>
              senders_and_authorities = RecoveredAddresses(Blk.transactions)
\* One call over the single height 1 whose block comes from the wider
\* choice of transactions: process_monad_block applied to every such block.
WideBlocks(n) ==
    { ArchivedBlock(n, txs, 1, BogusHash) : txs \in WideTxLists }
FetchWide == block_num <= MaxHeight /\ FetchFrom(WideBlocks(block_num))
BlockNext ==
    \/ SeedParent
    \/ LoopCondition
    \/ FetchWide
    \/ StaticValidateHeader
    \/ StaticValidateBlock
    \/ Recover
    \/ CheckSenders
    \/ StaticValidateMonadBody
    \/ AllocTracers
    \/ BuildContext
    \/ SetScope
    \/ ExecuteBlock
    \/ Commit
    \/ ValidateOutputHeader
    \/ Finalize
    \/ UpdateVerifiedBlock
    \/ BlockHashBufferSet
    \/ LogMetrics
    \/ Try
    \/ Account
    \/ Finish
BlockSpec == InitFrom({1}, {1}) /\ [][BlockNext]_vars

\* every sender of the block in progress was recovered
AllSendersPresent ==
    /\ has_value(block)
    /\ \A i \in DOMAIN Blk.transactions :
          Blk.transactions[i].sender # None
\* the senders of a list of transactions, and its recovered authorities
SendersOf(txs) == { value(txs[i].sender) : i \in DOMAIN txs }
AuthoritiesOf(txs) ==
    { a \in Addresses :
        \E i \in DOMAIN txs :
            \E k \in DOMAIN txs[i].authorities :
                txs[i].authorities[k] = Some(a) }

\* C19: with all senders recovered, whatever authorities are absent, the
\* block is not ended by MissingSender (only a validator, the execution or
\* the output check can end it), and the set built for it and written to
\* the out AddressSet holds every sender and every present authority and
\* nothing for an absent one.
C19_AbsentAuthoritiesAreLeftOut ==
    (AllSendersPresent /\ InStages("check_senders")) =>
        /\ ~ProcessReturned("MissingSender")
        /\ ProcessFailed =>
              value(process_result) \in StageErrors \ {"MissingSender"}
        /\ (InStages("static_validate_monad_body") /\ pc # "returned"
               /\ pc # "account") =>
              /\ set_local =
                    SendersOf(Blk.transactions) \cup
                        AuthoritiesOf(Blk.transactions)
              /\ ZeroAddress \notin set_local
        /\ InStages("build_context") =>
              senders_and_authorities =
                  SendersOf(Blk.transactions) \cup
                      AuthoritiesOf(Blk.transactions)

\* a block with one transaction whose authorities are all absent and one
\* with an absent authority before a present one has reached execution
C19_Witness ==
    /\ pc = "execute_block"
    /\ Len(Blk.transactions) = 2
    /\ Blk.transactions[1].authorities = << None, None >>
    /\ Blk.transactions[2].authorities = << None, Some("0xa3") >>
    /\ senders_and_authorities = {"0xa1", "0xa2", "0xa3"}

\* C20: the AddressSet built for a block equals the one built from any
\* other list of transactions that carries the same senders and the same
\* recovered authorities, in whatever order and however often.
C20_SetIgnoresOrder ==
    (pc = "set_scope" /\ AllSendersPresent) =>
        \A other \in WideTxLists :
            (/\ \A i \in DOMAIN other : other[i].sender # None
             /\ SendersOf(other) = SendersOf(Blk.transactions)
             /\ AuthoritiesOf(other) = AuthoritiesOf(Blk.transactions)) =>
                InsertAll(SeedSenders(recover_senders(other)),
                          recover_authorities(other))
                    = senders_and_authorities

\* the set of a block whose two transactions have different senders and
\* authorities in different orders
C20_Witness ==
    /\ pc = "set_scope"
    /\ Len(Blk.transactions) = 2
    /\ Blk.transactions[1] =
          Tx(Some("0xa2"), << Some("0xa3"), Some("0xa1") >>)
    /\ Blk.transactions[2] = Tx(Some("0xa1"), << None, Some("0xa3") >>)
    /\ senders_and_authorities = {"0xa1", "0xa2", "0xa3"}
\* the positions in the call record of the calls of a kind for height n
CallIndices(kind, n) ==
    { i \in DOMAIN calls : calls[i][1] = kind /\ CallHeight(calls[i]) = n }

\* C21: for every successfully processed block N there is exactly one
\* db.finalize call, with (N, id of block N), and exactly one
\* db.update_verified_block call, with N, the finalize first; every height
\* given to update_verified_block was given to finalize before; and no
\* such call is made for a block for which process_monad_block failed.
C21_FinalizeThenVerifiedOnce ==
    /\ \A k \in DOMAIN processed :
          /\ Cardinality(CallIndices("finalize", processed[k])) = 1
          /\ Cardinality(CallIndices("update_verified_block",
                                     processed[k])) = 1
          /\ \A i \in CallIndices("finalize", processed[k]) :
                /\ calls[i] = << "finalize", processed[k],
                                 Bytes32(processed[k]) >>
                /\ \A j \in CallIndices("update_verified_block",
                                         processed[k]) : i < j
    /\ \A j \in DOMAIN calls :
          calls[j][1] = "update_verified_block" =>
              \E i \in 1..(j - 1) :
                  calls[i][1] = "finalize" /\ calls[i][2] = calls[j][2]
    /\ ProcessFailed =>
          KindsFor(Blk.header.number) \cap AfterVerification = {}

\* two blocks were processed with success and the next one failed after
\* its commit
C21_Witness ==
    /\ Len(processed) = 2
    /\ ProcessFailed
    /\ "commit" \in KindsFor(Blk.header.number)
    /\ Len(CallsOf("update_verified_block")) = 2
\* everything process_monad_block does to the store and the hash buffer
\* for the block of height n is done
Completed(n) ==
    /\ {"commit", "finalize", "update_verified_block"} \subseteq KindsFor(n)
    /\ Verified(n)
    /\ n \in HashHeights

\* C22: a block is read from the archive only when, for every block read
\* before it, the commit, the output-header verification, finalize,
\* update_verified_block and the hash-buffer set are done and no
\* BlockState is alive; at no time is more than one BlockState alive.
C22_NoPipelining ==
    /\ [](Cardinality(block_state) <= 1)
    /\ [][fetched' # fetched =>
              /\ block_state = {}
              /\ \A i \in DOMAIN fetched : Completed(fetched[i])]_vars

\* the second block of a call has its BlockState alive, the first being
\* complete
C22_Witness ==
    /\ Len(fetched) = 2
    /\ block_state = {fetched[2]}
    /\ Completed(fetched[1])
    /\ pc = "commit"
\* C23: once the seeding is over, the parent and grandparent AddressSets
\* change only in the advance step of the run loop, which runs after
\* process_monad_block returned success for the block and makes the
\* block's set the parent and the old parent the grandparent; they do not
\* change while process_monad_block runs nor after it failed, and the
\* context of a block points at them as they are.
C23_WindowChangesOnlyInAdvance ==
    /\ [](has_value(chain_context) =>
              /\ value(chain_context).parent_senders_and_authorities =
                    parent_senders_and_authorities
              /\ value(chain_context).grandparent_senders_and_authorities =
                    grandparent_senders_and_authorities)
    /\ [][(pc \notin {"seed_parent", "seed_grandparent"}
             /\ window' # window) =>
              /\ pc = "account"
              /\ process_result = Some("success")
              /\ window' = << Some(senders_and_authorities),
                              parent_senders_and_authorities >>]_vars

\* a block failed after two advance steps, with the window as the second
\* advance left it
C23_Witness ==
    /\ Returned
    /\ ProcessFailed
    /\ Len(processed) = 2
    /\ window = << SetOfHeight(processed[2]), SetOfHeight(processed[1]) >>
    /\ SetOfHeight(processed[2]) # SetOfHeight(processed[1])
\* a collector that records: a CallTracer does; a NoopCallTracer and a
\* StateTracer that holds std::monostate, the empty alternative, do not
Records(t) == t = "CallTracer"
\* the tracers of the block in progress are allocated
TracersAllocated ==
    /\ has_value(block)
    /\ pc \in BlockPcs \ {"account"}
    /\ InStages("alloc_tracers")
\* one call tracer per transaction, all of the kind the flag selects
CallTracersFollowFlag ==
    /\ Len(call_tracers) = NumTxs
    /\ \A i \in DOMAIN call_tracers :
          Records(call_tracers[i]) = enable_tracing

\* C24 as claimed: for a block with n transactions there are n call-trace
\* and n state-trace collectors, and the enable_tracing flag selects for
\* all of them together whether they record (flag set) or are no-op
\* (flag clear), so that no block has collectors of both kinds.
C24_FlagSelectsAllCollectors ==
    TracersAllocated =>
        /\ CallTracersFollowFlag
        /\ Len(state_tracers) = NumTxs
        /\ \A i \in DOMAIN state_tracers :
              Records(state_tracers[i]) = enable_tracing
\* ------------------------------------------------------------------------
\* event.cpp: set-up of the execution event ring by concurrent processes
\* ------------------------------------------------------------------------
\* an unlink that is not made
Unlink_NameStays(d, name) == d
\* unlink(2) of a name: the name is gone, the inode lives on while it is
\* open
Unlink(d, name) == [d EXCEPT ![name] = NoFile]
\* close(2) of a descriptor of process p: the flock held through it is
\* dropped
Close(l, f, p) == IF f # NoFile /\ l[f] = p THEN [l EXCEPT ![f] = 0] ELSE l
\* flock(fd, LOCK_EX | LOCK_NB) finds the lock held through another open
\* file description
WouldBlock(l, f) == l[f] # 0
\* a rename that replaces what is at the target
CanRename_Replaces(d) == TRUE
\* renameat2(..., RENAME_NOREPLACE), lines 1032-1037: fails when the target
\* name exists
CanRename(d) == d[RingPath] = NoFile
\* a claim step that destroys the file whoever holds its lock
ClaimBlocked_TakesOver(l, f) == FALSE
\* lines 915-917: the claim step gives up when the lock is held elsewhere
ClaimBlocked(l, f) == WouldBlock(l, f)
\* an entry that sets up the recorder again
AfterAssert_Reinitialises(recorder, next) == next
\* line 1128, MONAD_ASSERT(!g_exec_event_recorder): the process aborts when
\* the recorder is set
AfterAssert(recorder, next) == IF recorder # NoFile THEN "aborted" ELSE next

\* a restore that unblocks the two signals
RestoredMask_Unblocks(mask, old) == mask \ Blocked
\* line 1069, sigprocmask(SIG_SETMASK, &old_mask, nullptr): the mask of the
\* process becomes the saved one
RestoredMask(mask, old) == old

\* the process goes to a position of init_execution_event_recorder
Goto(p, at) == rpc' = [rpc EXCEPT ![p] = at]
\* a step of create_owned_event_ring fails with a code: control goes to a
\* position with that code pending
Fails(p, code, at) == rc' = [rc EXCEPT ![p] = code] /\ Goto(p, at)
\* init_execution_event_recorder returns a code
Returns(p, code) == rc' = [rc EXCEPT ![p] = code] /\ Goto(p, "idle")

\* lines 1126-1143: entry, with a ring spec that has a '/' or has none
InitRecorder(p) ==
    /\ rpc[p] = "idle"
    /\ ncalls[p] < MaxCalls
    /\ ncalls' = [ncalls EXCEPT ![p] = @ + 1]
    /\ rc' = [rc EXCEPT ![p] = ""]
    /\ \E has_slash \in BOOLEAN :
          Goto(p, AfterAssert(g_exec_event_recorder[p],
                              IF has_slash THEN "check_hugetlb"
                              ELSE "open_ring_dir"))
    /\ UNCHANGED << dir, initialized, lock, ring_fd, init_ring_fd, sigmask,
                    old_mask, g_exec_event_recorder, cfgvars,
                    memovars, runloop >>

\* a step of init_execution_event_recorder that asks the event library
\* before any file is touched
LibraryStep(p, at, next, code) ==
    /\ rpc[p] = at
    /\ \E ok \in BOOLEAN :
          IF ok THEN Goto(p, next) /\ UNCHANGED rc ELSE Returns(p, code)
    /\ UNCHANGED << ncalls, dir, initialized, lock, ring_fd, init_ring_fd,
                    sigmask, old_mask, g_exec_event_recorder, cfgvars,
                    memovars,
                    runloop >>

\* lines 1130-1143: monad_event_open_ring_dir_fd
OpenRingDir(p) ==
    LibraryStep(p, "open_ring_dir", "check_hugetlb", "EDIR")
\* lines 1146-1158: monad_check_path_supports_map_hugetlb
CheckHugetlb(p) == LibraryStep(p, "check_hugetlb", "sigblock", "EHUGETLB")

\* lines 1057-1064: sigprocmask(SIG_BLOCK, {SIGINT, SIGTERM}, &old_mask)
SigBlock(p) ==
    /\ rpc[p] = "sigblock"
    /\ old_mask' = [old_mask EXCEPT ![p] = sigmask[p]]
    /\ sigmask' = [sigmask EXCEPT ![p] = sigmask[p] \cup Blocked]
    /\ Goto(p, "claim_open")
    /\ UNCHANGED << rc, ncalls, dir, initialized, lock, ring_fd,
                    init_ring_fd, g_exec_event_recorder, cfgvars,
                    memovars, runloop >>

\* lines 909-914: open(ring_path, O_RDONLY); when it fails the claim step
\* returns 0
ClaimOpen(p) ==
    /\ rpc[p] = "claim_open"
    /\ \E opens \in {TRUE, FALSE} :
          IF opens /\ dir[RingPath] # NoFile
          THEN /\ ring_fd' = [ring_fd EXCEPT ![p] = dir[RingPath]]
               /\ Goto(p, "claim_flock")
          ELSE /\ Goto(p, "alloc_open")
               /\ UNCHANGED ring_fd
    /\ UNCHANGED << rc, ncalls, dir, initialized, lock, init_ring_fd,
                    sigmask, old_mask, g_exec_event_recorder, cfgvars,
                    memovars,
                    runloop >>

\* lines 915-942: flock(ring_fd, LOCK_EX | LOCK_NB); on failure the claim
\* step returns the errno, its descriptor closed, and
\* create_owned_event_ring returns it (lines 1023-1025)
ClaimFlock(p) ==
    /\ rpc[p] = "claim_flock"
    /\ IF ClaimBlocked(lock, ring_fd[p])
       THEN /\ Fails(p, "EWOULDBLOCK", "sigrestore")
            /\ ring_fd' = [ring_fd EXCEPT ![p] = NoFile]
            /\ UNCHANGED lock
       ELSE \E locks \in BOOLEAN :
               IF locks
               THEN /\ lock' = [lock EXCEPT ![ring_fd[p]] = p]
                    /\ Goto(p, "claim_unlink")
                    /\ UNCHANGED << rc, ring_fd >>
               ELSE /\ Fails(p, "ENOLCK", "sigrestore")
                    /\ ring_fd' = [ring_fd EXCEPT ![p] = NoFile]
                    /\ UNCHANGED lock
    /\ UNCHANGED << ncalls, dir, initialized, init_ring_fd, sigmask,
                    old_mask, g_exec_event_recorder, cfgvars,
                    memovars, runloop >>

\* line 944: unlink(ring_path)
ClaimUnlink(p) ==
    /\ rpc[p] = "claim_unlink"
    /\ dir' = Unlink(dir, RingPath)
    /\ Goto(p, "claim_return")
    /\ UNCHANGED << rc, ncalls, initialized, lock, ring_fd, init_ring_fd,
                    sigmask, old_mask, g_exec_event_recorder, cfgvars,
                    memovars,
                    runloop >>

\* line 945 with the cleanup of ring_fd (line 909): the claim step returns 0
ClaimReturn(p) ==
    /\ rpc[p] = "claim_return"
    /\ lock' = Close(lock, ring_fd[p], p)
    /\ ring_fd' = [ring_fd EXCEPT ![p] = NoFile]
    /\ Goto(p, "alloc_open")
    /\ UNCHANGED << rc, ncalls, dir, initialized, init_ring_fd, sigmask,
                    old_mask, g_exec_event_recorder, cfgvars,
                    memovars, runloop >>

\* lines 956-968: open(init_path, O_RDWR | O_CREAT | O_EXCL)
AllocOpen(p) ==
    /\ rpc[p] = "alloc_open"
    /\ IF dir[InitPath(p)] # NoFile
       THEN /\ Fails(p, "EEXIST", "unlink_init")
            /\ UNCHANGED << dir, init_ring_fd >>
       ELSE \E creates \in BOOLEAN :
               IF creates
               THEN /\ dir' = [dir EXCEPT ![InitPath(p)] =
                                   Inode(p, ncalls[p])]
                    /\ init_ring_fd' = [init_ring_fd EXCEPT ![p] =
                                            Inode(p, ncalls[p])]
                    /\ Goto(p, "alloc_flock")
                    /\ UNCHANGED rc
               ELSE /\ Fails(p, "ENOSPC", "unlink_init")
                    /\ UNCHANGED << dir, init_ring_fd >>
    /\ UNCHANGED << ncalls, initialized, lock, ring_fd, sigmask, old_mask,
                    g_exec_event_recorder, cfgvars,
                    memovars, runloop >>

\* lines 969-979: flock(*init_ring_fd, LOCK_EX)
AllocFlock(p) ==
    /\ rpc[p] = "alloc_flock"
    /\ ~WouldBlock(lock, init_ring_fd[p])
    /\ \E locks \in BOOLEAN :
          IF locks
          THEN /\ lock' = [lock EXCEPT ![init_ring_fd[p]] = p]
               /\ Goto(p, "alloc_init")
               /\ UNCHANGED rc
          ELSE /\ Fails(p, "ENOLCK", "unlink_init")
               /\ UNCHANGED lock
    /\ UNCHANGED << ncalls, dir, initialized, ring_fd, init_ring_fd,
                    sigmask, old_mask, g_exec_event_recorder, cfgvars,
                    memovars,
                    runloop >>

\* lines 980-987: monad_event_ring_init_simple
AllocInit(p) ==
    /\ rpc[p] = "alloc_init"
    /\ \E ok \in BOOLEAN :
          IF ok
          THEN /\ initialized' = initialized \cup {init_ring_fd[p]}
               /\ Goto(p, "rename")
               /\ UNCHANGED rc
          ELSE /\ Fails(p, "EINIT", "unlink_init")
               /\ UNCHANGED initialized
    /\ UNCHANGED << ncalls, dir, lock, ring_fd, init_ring_fd, sigmask,
                    old_mask, g_exec_event_recorder, cfgvars,
                    memovars, runloop >>

\* lines 1032-1037 and 1050: renameat2(init_path, ring_path,
\* RENAME_NOREPLACE)
Rename(p) ==
    /\ rpc[p] = "rename"
    /\ \E renames \in BOOLEAN :
          IF renames /\ CanRename(dir)
          THEN /\ dir' = [dir EXCEPT ![RingPath] = dir[InitPath(p)],
                                     ![InitPath(p)] = NoFile]
               /\ Fails(p, "0", "sigrestore")
          ELSE /\ Fails(p, IF CanRename(dir) THEN "EINVAL" ELSE "EEXIST",
                        "unlink_init")
               /\ UNCHANGED dir
    /\ UNCHANGED << ncalls, initialized, lock, ring_fd, init_ring_fd,
                    sigmask, old_mask, g_exec_event_recorder, cfgvars,
                    memovars,
                    runloop >>

\* lines 1028-1029 and 1038-1046: unlink(init_file_path), then the error is
\* returned
UnlinkInit(p) ==
    /\ rpc[p] = "unlink_init"
    /\ dir' = Unlink(dir, InitPath(p))
    /\ Goto(p, "sigrestore")
    /\ UNCHANGED << rc, ncalls, initialized, lock, ring_fd, init_ring_fd,
                    sigmask, old_mask, g_exec_event_recorder, cfgvars,
                    memovars,
                    runloop >>

\* lines 1069-1070 and 1170-1173: sigprocmask(SIG_SETMASK, &old_mask), and
\* the code of create_owned_event_ring decides how the caller goes on
SigRestore(p) ==
    /\ rpc[p] = "sigrestore"
    /\ sigmask' = [sigmask EXCEPT ![p] = RestoredMask(sigmask[p],
                                                      old_mask[p])]
    /\ Goto(p, IF rc[p] = "0" THEN "mmap" ELSE "failed")
    /\ UNCHANGED << rc, ncalls, dir, initialized, lock, ring_fd,
                    init_ring_fd, old_mask, g_exec_event_recorder, cfgvars,
                    memovars,
                    runloop >>

\* lines 1174-1189: monad_event_ring_mmap
Mmap(p) ==
    /\ rpc[p] = "mmap"
    /\ \E ok \in BOOLEAN :
          IF ok
          THEN Goto(p, "set_recorder") /\ UNCHANGED rc
          ELSE Fails(p, "EMMAP", "failed")
    /\ UNCHANGED << ncalls, dir, initialized, lock, ring_fd, init_ring_fd,
                    sigmask, old_mask, g_exec_event_recorder, cfgvars,
                    memovars,
                    runloop >>

\* lines 1172 and 1188: a non-zero code is returned; the cleanup of ring_fd
\* (line 1169) closes the init file descriptor
RecorderFailed(p) ==
    /\ rpc[p] = "failed"
    /\ lock' = Close(lock, init_ring_fd[p], p)
    /\ init_ring_fd' = [init_ring_fd EXCEPT ![p] = NoFile]
    /\ Goto(p, "idle")
    /\ UNCHANGED << rc, ncalls, dir, initialized, ring_fd, sigmask,
                    old_mask, g_exec_event_recorder, cfgvars,
                    memovars, runloop >>

\* lines 1191-1198: the recorder is made from ring_fd and 0 is returned.
\* The recorder keeps its own descriptor of the ring file (a duplicate of
\* ring_fd made by ExecutionEventRecorder, which is outside the file), so
\* the flock outlives the cleanup of ring_fd.
SetRecorder(p) ==
    /\ rpc[p] = "set_recorder"
    /\ g_exec_event_recorder' =
          [g_exec_event_recorder EXCEPT ![p] = init_ring_fd[p]]
    /\ init_ring_fd' = [init_ring_fd EXCEPT ![p] = NoFile]
    /\ Returns(p, "0")
    /\ UNCHANGED << ncalls, dir, initialized, lock, ring_fd, sigmask,
                    old_mask, cfgvars,
                    memovars, runloop >>

RingNext ==
    \/ \E p \in Procs : InitRecorder(p)
    \/ \E p \in Procs : OpenRingDir(p)
    \/ \E p \in Procs : CheckHugetlb(p)
    \/ \E p \in Procs : SigBlock(p)
    \/ \E p \in Procs : ClaimOpen(p)
    \/ \E p \in Procs : ClaimFlock(p)
    \/ \E p \in Procs : ClaimUnlink(p)
    \/ \E p \in Procs : ClaimReturn(p)
    \/ \E p \in Procs : AllocOpen(p)
    \/ \E p \in Procs : AllocFlock(p)
    \/ \E p \in Procs : AllocInit(p)
    \/ \E p \in Procs : Rename(p)
    \/ \E p \in Procs : UnlinkInit(p)
    \/ \E p \in Procs : SigRestore(p)
    \/ \E p \in Procs : Mmap(p)
    \/ \E p \in Procs : RecorderFailed(p)
    \/ \E p \in Procs : SetRecorder(p)

\* what the ring directory may hold when the processes start: a ring file
\* left by a process that is gone, and files left under init names
RingDirs ==
    { d \in [Paths -> Inodes \cup {NoFile}] :
        /\ d[RingPath] \in {NoFile, ZombieRing}
        /\ \A p \in Procs : d[InitPath(p)] \in {NoFile, Junk(p)} }

RingInit ==
    /\ RunloopInit({1}, {1})
    /\ stop = 0
    /\ ~enable_tracing
    /\ EventIdle(RingDirs, InitialMasks)
    /\ ConfigIdle({<< >>})
    /\ MemoIdle

RingSpec == RingInit /\ [][RingNext]_vars
\* create_owned_event_ring has returned 0 to process p in a call that did
\* not fail afterwards: p takes the ring file to be its own
Owns(p) ==
    \/ g_exec_event_recorder[p] # NoFile
    \/ rc[p] = "0" /\ rpc[p] \in {"sigrestore", "mmap", "set_recorder"}
\* the file at the ring path was put there by another process that holds
\* its lock
InstalledByOther(p) ==
    /\ dir[RingPath] # NoFile
    /\ lock[dir[RingPath]] \notin {0, p}
    /\ dir[RingPath] \in { Inode(lock[dir[RingPath]], k) : k \in 1..MaxCalls }

\* C25 as claimed: of the processes that run create_owned_event_ring on
\* one ring path at most one comes to own the ring file, in every
\* interleaving, and the unlink of the claim step of a process never
\* removes a ring file that another process has installed and holds
\* locked.
C25_OneOwnerAndNoLiveUnlink ==
    /\ [](Cardinality({ p \in Procs : Owns(p) }) <= 1)
    /\ [][\A p \in Procs :
              (rpc[p] = "claim_unlink" /\ rpc'[p] # rpc[p]) =>
                  ~InstalledByOther(p)]_vars
\* the files process p creates
CreatedBy(p) == { Inode(p, k) : k \in 1..MaxCalls }
\* process p moves to a position of create_owned_event_ring in this step
Enters(p, at) == rpc[p] # at /\ rpc'[p] = at

\* C26: create_owned_event_ring takes its steps in the order: exclusive
\* non-blocking lock on the existing ring file and unlink only when the
\* lock was obtained, exclusive creation of the init file, lock on it,
\* initialisation, rename to the ring path; a file comes to be under the
\* ring path only by the rename of its creator, when it is locked by the
\* creator and initialised, and only when no file was under that path.
C26_LockedAndInitialisedBeforeVisible ==
    [][/\ \A p \in Procs :
             /\ Enters(p, "claim_flock") => rpc[p] = "claim_open"
             /\ Enters(p, "claim_unlink") =>
                   /\ rpc[p] = "claim_flock"
                   /\ lock[ring_fd[p]] = 0
                   /\ lock'[ring_fd[p]] = p
             /\ (rpc[p] = "claim_unlink" /\ rpc'[p] # rpc[p]) =>
                   /\ lock[ring_fd[p]] = p
                   /\ dir'[RingPath] = NoFile
             /\ Enters(p, "alloc_open") =>
                   rpc[p] \in {"claim_open", "claim_return"}
             /\ Enters(p, "alloc_flock") =>
                   /\ rpc[p] = "alloc_open"
                   /\ dir[InitPath(p)] = NoFile
                   /\ dir'[InitPath(p)] \in CreatedBy(p)
                   /\ dir'[InitPath(p)] \notin initialized
             /\ Enters(p, "alloc_init") =>
                   /\ rpc[p] = "alloc_flock"
                   /\ lock'[init_ring_fd[p]] = p
             /\ Enters(p, "rename") =>
                   /\ rpc[p] = "alloc_init"
                   /\ init_ring_fd[p] \in initialized'
       /\ (dir'[RingPath] # dir[RingPath] /\ dir'[RingPath] # NoFile) =>
             /\ dir[RingPath] = NoFile
             /\ dir'[RingPath] \in initialized
             /\ \E p \in Procs :
                   /\ rpc[p] = "rename"
                   /\ dir'[RingPath] \in CreatedBy(p)
                   /\ dir'[RingPath] = dir[InitPath(p)]
                   /\ lock[dir'[RingPath]] = p]_vars

\* the rename of process 2, whose init file is locked and initialised, has
\* failed on the ring file that process 1 installed, and that file is in
\* place
C26_Witness ==
    /\ dir[RingPath] = Inode(1, 1)
    /\ lock[Inode(1, 1)] = 1
    /\ Inode(1, 1) \in initialized
    /\ rpc[2] = "unlink_init"
    /\ rc[2] = "EEXIST"
    /\ dir[InitPath(2)] = Inode(2, 1)
    /\ Inode(2, 1) \in initialized
\* process p takes a step
Steps(p) == rpc'[p] # rpc[p]
\* the positions through which a failed create_owned_event_ring returns
ReturnPath == {"sigrestore", "failed", "idle"}

\* C27: when the ring file is open and locked by another process, the
\* claim step returns EWOULDBLOCK, create_owned_event_ring and its callers
\* return that code, no name of the directory changes and the process
\* creates no init file; when the ring file cannot be opened the claim
\* step returns 0 and the creation goes on; when the lock is obtained the
\* ring path is unlinked and the creation goes on.
C27_ClaimOutcomes ==
    /\ [](\A p \in Procs :
             (rc[p] = "EWOULDBLOCK") =>
                 /\ rpc[p] \in ReturnPath
                 /\ init_ring_fd[p] = NoFile
                 /\ dir[InitPath(p)] # Inode(p, ncalls[p]))
    /\ [][\A p \in Procs :
             /\ (rpc[p] = "claim_flock" /\ Steps(p)
                   /\ lock[ring_fd[p]] \notin {0, p}) =>
                   /\ rc'[p] = "EWOULDBLOCK"
                   /\ rpc'[p] = "sigrestore"
                   /\ UNCHANGED << dir, lock, initialized >>
             /\ (rc[p] = "EWOULDBLOCK" /\ Steps(p) /\ rpc[p] # "idle") =>
                   /\ rc'[p] = "EWOULDBLOCK"
                   /\ rpc'[p] \in ReturnPath
                   /\ UNCHANGED << dir, initialized >>
             /\ (rpc[p] = "claim_open" /\ Steps(p)) =>
                   /\ UNCHANGED << dir, lock, rc >>
                   /\ IF ring_fd'[p] = NoFile
                      THEN rpc'[p] = "alloc_open"
                      ELSE /\ rpc'[p] = "claim_flock"
                           /\ ring_fd'[p] = dir[RingPath]
                   /\ dir[RingPath] = NoFile => rpc'[p] = "alloc_open"
             /\ (rpc[p] = "claim_flock" /\ Steps(p)
                   /\ lock'[ring_fd[p]] = p) =>
                   /\ lock[ring_fd[p]] = 0
                   /\ rpc'[p] = "claim_unlink"
                   /\ UNCHANGED << dir, rc >>
             /\ (rpc[p] = "claim_unlink" /\ Steps(p)) =>
                   /\ dir'[RingPath] = NoFile
                   /\ rpc'[p] = "claim_return"
                   /\ UNCHANGED rc
             /\ (rpc[p] = "claim_return" /\ Steps(p)) =>
                   /\ rpc'[p] = "alloc_open"
                   /\ UNCHANGED << dir, rc >>]_vars

\* process 2 has returned EWOULDBLOCK from its first call while the ring
\* file of process 1, whose recorder is set, is in place
C27_Witness ==
    /\ rc[2] = "EWOULDBLOCK"
    /\ rpc[2] = "idle"
    /\ ncalls[2] = 1
    /\ g_exec_event_recorder[1] = Inode(1, 1)
    /\ dir[RingPath] = Inode(1, 1)
    /\ lock[Inode(1, 1)] = 1
\* C28: the recorder of a process changes only once, from unset to set, in
\* the step in which init_execution_event_recorder returns 0 with the init
\* file created, locked and initialised by the process and renamed to the
\* ring path; after a non-zero return it is unset; a call made while it is
\* set aborts the process, which sets nothing afterwards.
C28_RecorderSetOnce ==
    /\ [](\A p \in Procs :
             (rpc[p] = "idle" /\ ncalls[p] >= 1) =>
                 (g_exec_event_recorder[p] # NoFile <=> rc[p] = "0"))
    /\ [][\A p \in Procs :
             /\ g_exec_event_recorder'[p] # g_exec_event_recorder[p] =>
                   /\ g_exec_event_recorder[p] = NoFile
                   /\ rpc[p] = "set_recorder"
                   /\ rpc'[p] = "idle"
                   /\ rc[p] = "0"
                   /\ rc'[p] = "0"
                   /\ g_exec_event_recorder'[p] = Inode(p, ncalls[p])
                   /\ Inode(p, ncalls[p]) \in initialized
                   /\ lock[Inode(p, ncalls[p])] = p
                   /\ sigmask[p] = old_mask[p]
             /\ (rpc[p] = "idle" /\ Steps(p)
                   /\ g_exec_event_recorder[p] # NoFile) =>
                   rpc'[p] = "aborted"
             /\ rpc[p] = "aborted" => rpc'[p] = "aborted"]_vars

\* process 1 called again with its recorder set and was aborted, process 2
\* has returned the error of mmap and has no recorder
C28_Witness ==
    /\ rpc[1] = "aborted"
    /\ ncalls[1] = 2
    /\ g_exec_event_recorder[1] = Inode(1, 1)
    /\ rpc[2] = "idle"
    /\ rc[2] = "EMMAP"
    /\ g_exec_event_recorder[2] = NoFile
\* ------------------------------------------------------------------------
\* event.cpp: the configuration string
\* ------------------------------------------------------------------------
\* a string is the sequence of its characters
Digits == {"0", "1", "2", "3", "4", "5", "6", "7", "8", "9"}
DigitValue(c) ==
    CASE c = "0" -> 0 [] c = "1" -> 1 [] c = "2" -> 2 [] c = "3" -> 3
      [] c = "4" -> 4 [] c = "5" -> 5 [] c = "6" -> 6 [] c = "7" -> 7
      [] c = "8" -> 8 [] c = "9" -> 9
\* the largest value of the integer type of the two shift fields of
\* EventRingConfig (declared in event.hpp, outside the file, as uint8_t)
SHIFT_MAX == 255

\* std::views::split(s, ':') from a position on: the characters up to the
\* next delimiter are a token, and what follows a delimiter is split in
\* turn, an empty rest giving an empty token
RECURSIVE SplitRest(_, _)
SplitRest(s, token) ==
    IF s = << >>
    THEN << token >>
    ELSE IF Head(s) = ":"
         THEN << token >> \o SplitRest(Tail(s), << >>)
         ELSE SplitRest(Tail(s), Append(token, Head(s)))
\* lines 1087-1089: the tokens of s; an empty string has none
Split(s) == IF s = << >> THEN << >> ELSE SplitRest(s, << >>)

\* std::from_chars(begin(s), end(s), *i, 10) for an unsigned type: it
\* takes the longest prefix of digits (no sign, no blank); ptr is the
\* number of characters taken, ec the error
RECURSIVE from_chars(_, _, _)
from_chars(s, taken, acc) ==
    IF s # << >> /\ Head(s) \in Digits
    THEN from_chars(Tail(s), taken + 1,
                    IF acc > SHIFT_MAX THEN acc
                    ELSE 10 * acc + DigitValue(Head(s)))
    ELSE [ptr |-> taken,
          ec |-> IF taken = 0 THEN "invalid_argument"
                 ELSE IF acc > SHIFT_MAX THEN "result_out_of_range"
                 ELSE "",
          i |-> acc]

\* a token parser that is content with a prefix of digits
try_parse_int_token_Prefix(s) ==
    IF from_chars(s, 0, 0).ec # ""
    THEN [err |-> "could not parse as integer", i |-> 0]
    ELSE [err |-> "", i |-> from_chars(s, 0, 0).i]
\* try_parse_int_token, lines 889-905: the error string (empty on success)
\* and the integer written through i
try_parse_int_token(s) ==
    IF from_chars(s, 0, 0).ptr # Len(s)
    THEN [err |-> "contains non-integer characters", i |-> 0]
    ELSE IF from_chars(s, 0, 0).ec # ""
         THEN [err |-> "could not parse as integer", i |-> 0]
         ELSE [err |-> "", i |-> from_chars(s, 0, 0).i]

\* std::unexpected(message) and the expected configuration
Unexpected(message) == [ok |-> FALSE, error |-> message, cfg |-> << >>]
Expected(spec, descriptors, payload) ==
    [ok |-> TRUE, error |-> "",
     cfg |-> << [event_ring_spec |-> spec,
                 descriptors_shift |-> descriptors,
                 payload_buf_shift |-> payload] >>]
\* lines 1105-1121: a shift token, given its position among the tokens
ParseShift(tokens, k, default) ==
    IF Len(tokens) < k \/ tokens[k] = << >>
    THEN [err |-> "", i |-> default]
    ELSE try_parse_int_token(tokens[k])

\* try_parse_event_ring_config, lines 1081-1124
try_parse_event_ring_config(s) ==
    IF Len(Split(s)) < 1 \/ Len(Split(s)) > 3
    THEN Unexpected("does not have expected format")
    ELSE IF ParseShift(Split(s), 2,
                       DEFAULT_EXEC_RING_DESCRIPTORS_SHIFT).err # ""
         THEN Unexpected("parse error in ring_shift")
         ELSE IF ParseShift(Split(s), 3,
                            DEFAULT_EXEC_RING_PAYLOAD_BUF_SHIFT).err # ""
              THEN Unexpected("parse error in payload_buffer_shift")
              ELSE Expected(
                       Split(s)[1],
                       ParseShift(Split(s), 2,
                                  DEFAULT_EXEC_RING_DESCRIPTORS_SHIFT).i,
                       ParseShift(Split(s), 3,
                                  DEFAULT_EXEC_RING_PAYLOAD_BUF_SHIFT).i)

\* the tokens a caller may put between colons: nothing, names, a path,
\* numbers that fit the shift fields, one that does not, and digits mixed
\* with other characters
ConfigTokens ==
    { << >>, << "r" >>, << "/", "r" >>, << "7" >>, << "0", "7" >>,
      << "2", "5", "5" >>, << "2", "5", "6" >>, << "7", "x" >>,
      << "-", "7" >> }
RECURSIVE Join(_)
Join(tokens) ==
    IF Len(tokens) = 0 THEN << >>
    ELSE IF Len(tokens) = 1 THEN tokens[1]
    ELSE tokens[1] \o << ":" >> \o Join(Tail(tokens))
\* the configuration strings: up to MaxTokens tokens joined by colons
ConfigInputs == { Join(ts) : ts \in SeqUpTo(ConfigTokens, MaxTokens) }

\* the program parses its configuration string
ParseConfig ==
    /\ config_result = None
    /\ config_result' = Some(try_parse_event_ring_config(config_input))
    /\ UNCHANGED << config_input, ringvars, memovars, runloop >>

ParseNext == ParseConfig

ParseInit ==
    /\ RunloopInit({1}, {1})
    /\ stop = 0
    /\ ~enable_tracing
    /\ EventIdle({EmptyDir}, {{}})
    /\ ConfigIdle(ConfigInputs)
    /\ MemoIdle

ParseSpec == ParseInit /\ [][ParseNext]_vars
\* the positions of the colons of a string, and the k-th of them
Colons(s) == { i \in DOMAIN s : s[i] = ":" }
NthColon(s, k) ==
    CHOOSE i \in Colons(s) : Cardinality({ j \in Colons(s) : j <= i }) = k
\* a non-empty string has a k-th field when it has k - 1 colons or more:
\* the characters between the colons k - 1 and k, or up to the end
HasField(s, k) == s # << >> /\ Cardinality(Colons(s)) >= k - 1
Field(s, k) ==
    SubSeq(s,
           IF k = 1 THEN 1 ELSE NthColon(s, k - 1) + 1,
           IF Cardinality(Colons(s)) >= k THEN NthColon(s, k) - 1
           ELSE Len(s))
\* the number a string of digits denotes in base 10
RECURSIVE Decimal(_)
Decimal(t) ==
    IF t = << >> THEN 0
    ELSE 10 * Decimal(SubSeq(t, 1, Len(t) - 1)) + DigitValue(t[Len(t)])
\* a non-empty shift that is not a base-10 integer over its whole length or
\* does not fit the field
BadShift(s, k) ==
    /\ HasField(s, k)
    /\ Field(s, k) # << >>
    /\ \/ \E i \in DOMAIN Field(s, k) : Field(s, k)[i] \notin Digits
       \/ Decimal(Field(s, k)) > SHIFT_MAX
\* the value of a shift: the default when it is missing or empty
ShiftOf(s, k, default) ==
    IF ~HasField(s, k) \/ Field(s, k) = << >> THEN default
    ELSE Decimal(Field(s, k))

\* C29: for a non-empty configuration string, try_parse_event_ring_config
\* yields an error and no configuration when the string has more than
\* three colon-separated tokens or a non-empty shift that has a non-digit
\* character or does not fit the field; otherwise it yields the
\* configuration whose ring spec is the first token and whose shifts are
\* the base-10 values of the second and third token, a missing or empty
\* one being replaced by its default.
C29_ConfigStringParsed ==
    (has_value(config_result) /\ config_input # << >>) =>
        IF \/ Cardinality(Colons(config_input)) > 2
           \/ BadShift(config_input, 2)
           \/ BadShift(config_input, 3)
        THEN /\ ~value(config_result).ok
             /\ value(config_result).cfg = << >>
             /\ value(config_result).error # ""
        ELSE /\ value(config_result).ok
             /\ value(config_result).cfg =
                   << [event_ring_spec |-> Field(config_input, 1),
                       descriptors_shift |->
                           ShiftOf(config_input, 2,
                                   DEFAULT_EXEC_RING_DESCRIPTORS_SHIFT),
                       payload_buf_shift |->
                           ShiftOf(config_input, 3,
                                   DEFAULT_EXEC_RING_PAYLOAD_BUF_SHIFT)] >>

\* the string "/r::07" was parsed: a path, an empty descriptor shift and a
\* payload buffer shift of 7
C29_Witness ==
    /\ config_input = << "/", "r", ":", ":", "0", "7" >>
    /\ has_value(config_result)
    /\ value(config_result).ok
    /\ value(config_result).cfg[1].event_ring_spec = << "/", "r" >>
    /\ value(config_result).cfg[1].descriptors_shift =
          DEFAULT_EXEC_RING_DESCRIPTORS_SHIFT
    /\ value(config_result).cfg[1].payload_buf_shift = 7
\* C30 as claimed: for every block N >= 1 that the loop processes, the
\* first one of the call included, the store scope is set to the height
\* N - 1 with the id under which this loop commits the block of that
\* height, which is the 32-byte encoding of N - 1; and every commit is
\* made under the encoding of the height of its block.
C30_ScopeIsParentHeightAndId ==
    \A i \in DOMAIN calls :
        /\ (calls[i][1] = "set_block_and_prefix"
              /\ CallHeight(calls[i]) >= 1) =>
              /\ calls[i][2] = CallHeight(calls[i]) - 1
              /\ calls[i][3] = Bytes32(CallHeight(calls[i]) - 1)
        /\ calls[i][1] = "commit" =>
              calls[i][2] = Bytes32(CallHeight(calls[i]))
\* ------------------------------------------------------------------------
\* The throughput lines
\* ------------------------------------------------------------------------
RECURSIVE LoggedBlocks(_)
\* the block counts of the given throughput lines, added up
LoggedBlocks(lines) ==
    IF lines = << >> THEN 0
    ELSE Head(lines).nblocks + LoggedBlocks(Tail(lines))
RECURSIVE LoggedTxs(_)
\* the transaction counts of the given throughput lines, added up
LoggedTxs(lines) ==
    IF lines = << >> THEN 0
    ELSE Head(lines).ntxs + LoggedTxs(Tail(lines))
RECURSIVE LoggedGas(_)
\* the gas counts of the given throughput lines, added up
LoggedGas(lines) ==
    IF lines = << >> THEN 0
    ELSE Head(lines).gas + LoggedGas(Tail(lines))
\* the processed blocks no throughput line has counted yet
Unreported == Len(processed) - LoggedBlocks(log)

\* C31: after a normal return the block, transaction and gas counts of the
\* throughput lines, the flush included, add up to the number of blocks
\* processed and to the returned transaction and gas totals, no line counts
\* more blocks than were processed since the line before it, and the flush
\* writes a line if and only if processed blocks are still unreported.
C31_EveryBlockInOneLine ==
    /\ [](/\ Unreported >= 0
          /\ ReturnedOk =>
                /\ LoggedBlocks(log) = Len(processed)
                /\ LoggedTxs(log) = value(result).value[1]
                /\ LoggedGas(log) = value(result).value[2])
    /\ [][(pc = "flush" /\ pc' = "returned") =>
             /\ (log' # log) <=> (Unreported > 0)
             /\ Len(log') <= Len(log) + 1]_vars

\* a bounded range of two blocks with transactions and gas is reported by
\* the flush alone
C31_Witness ==
    /\ ReturnedOk
    /\ end_block_num # UINT64_MAX
    /\ Len(processed) = 2
    /\ Len(log) = 1
    /\ value(result).value[1] >= 2
    /\ value(result).value[2] >= 1
\* Calls over the heights around the first multiple of the batch size, in
\* an archive that holds one block for every height up to the one after
\* that multiple: a call starts shortly before the multiple and ends after
\* it or never.
BatchTop == BATCH_SIZE + 1
LongBlock(n) ==
    ArchivedBlock(n, [i \in 1..(n % (MaxTxs + 1)) |-> Tx(Some("0xa1"), << >>)],
                  1, BogusHash)
FetchLong == block_num <= BatchTop /\ FetchFrom({LongBlock(block_num)})
BatchNext ==
    \/ SeedParent
    \/ SeedGrandparent
    \/ LoopCondition
    \/ FetchLong
    \/ FetchMissing
    \/ StaticValidateHeader
    \/ StaticValidateBlock
    \/ Recover
    \/ CheckSenders
    \/ StaticValidateMonadBody
    \/ AllocTracers
    \/ BuildContext
    \/ SetScope
    \/ ExecuteBlock
    \/ Commit
    \/ ValidateOutputHeader
    \/ Finalize
    \/ UpdateVerifiedBlock
    \/ BlockHashBufferSet
    \/ LogMetrics
    \/ Try
    \/ Account
    \/ Finish
    \/ SetStop
BatchInit ==
    /\ InitFrom({BATCH_SIZE - 1}, {BatchTop, UINT64_MAX})
    /\ stop = 0
    /\ ~enable_tracing
BatchSpec == BatchInit /\ [][BatchNext]_vars
\* between two blocks: every line of the log was written in the loop
BetweenBlocks == pc \in {"loop", "fetch", "flush"}
\* the heights first, first + 1, ..., last
HeightsTo(first, last) == HeightsFrom(first, last + 1 - first)
\* the line log_tps writes for the processed heights first..last
LineFor(first, last) ==
    log_tps(last, last + 1 - first, TxsOf(HeightsTo(first, last)),
            GasOf(HeightsTo(first, last)))
\* the number of blocks between two lines as claimed: one for a range
\* without end, BATCH_SIZE for a bounded one
Period == IF end_block_num = UINT64_MAX THEN 1 ELSE BATCH_SIZE
\* the processed heights that are multiples of the period
Marks == SelectSeq(processed, LAMBDA h : h % Period = 0)

\* C32 as claimed: with a range without end the loop has written one line
\* per processed block, which covers that block alone; with a bounded range
\* it has written one line per BATCH_SIZE processed blocks and every line
\* covers BATCH_SIZE blocks.
C32_LineEveryBatch ==
    BetweenBlocks =>
        IF end_block_num = UINT64_MAX
        THEN /\ Len(log) = Len(processed)
             /\ \A i \in DOMAIN log :
                   log[i] = LineFor(processed[i], processed[i])
        ELSE /\ Len(log) = Len(processed) \div BATCH_SIZE
             /\ \A i \in DOMAIN log : log[i].nblocks = BATCH_SIZE

\* C32 amended: the loop has written one line for every processed block
\* whose height is a multiple of the period (1 without end, BATCH_SIZE for
\* a bounded range) and no other; a line covers the blocks processed since
\* the line before it or, for the first line, since the start of the call,
\* which are never more than the period and exactly one block without end.
C32_LineAtEveryBatchHeight ==
    BetweenBlocks =>
        /\ Len(log) = Len(Marks)
        /\ \A i \in DOMAIN log :
              /\ log[i] = LineFor(IF i = 1 THEN start ELSE Marks[i - 1] + 1,
                                  Marks[i])
              /\ log[i].nblocks <= Period
              /\ end_block_num = UINT64_MAX => log[i].nblocks = 1

\* a bounded call that started at the height before a multiple of
\* BATCH_SIZE has written one line, for two blocks, and none for the block
\* after
C32_Witness ==
    /\ pc = "loop"
    /\ end_block_num = BatchTop
    /\ processed = << BATCH_SIZE - 1, BATCH_SIZE, BATCH_SIZE + 1 >>
    /\ Len(log) = 1
    /\ log[1].nblocks = 2
    /\ log[1].block_num = BATCH_SIZE
\* ------------------------------------------------------------------------
\* Measured times
\* ------------------------------------------------------------------------
\* the warnings process_monad_block has logged for the block in progress
Warnings == SelectSeq(block_log, LAMBDA l : l.kind = "slow_commit")
\* the step runs the given stage of process_monad_block
Runs(stage) ==
    /\ Len(stages') = Len(stages) + 1
    /\ stages'[Len(stages')] = stage

\* C33: a commit measured above SLOW_COMMIT_MS adds one warning to the log
\* and a commit of SLOW_COMMIT_MS or less adds none; whatever duration the
\* clock gives, the commit step makes the same store operation, leaves the
\* result, the window and the totals alone and goes on to the verification
\* of the output header, and the metrics step, which prints the measured
\* times, returns success and changes nothing else of the outcome: two
\* runs that differ only in the measured times make the same steps on the
\* outcome.
C33_TimesDoNotChangeOutcome ==
    /\ [](/\ ~InStages("commit") => Warnings = << >>
          /\ (InStages("commit") /\ pc \in BlockPcs \ {"fetch", "account"}) =>
                /\ commit_time \in CommitTimes
                /\ Len(Warnings) = (IF commit_time > SLOW_COMMIT_MS
                                    THEN 1 ELSE 0)
                /\ \A i \in DOMAIN Warnings :
                      Warnings[i].block_num = Blk.header.number)
    /\ [][/\ Runs("commit") =>
                /\ \A ms \in CommitTimes : pc' = AfterCommit(ms)
                /\ pc' = "validate_output_header"
                /\ Len(calls') = Len(calls) + 1
                /\ calls'[Len(calls')] =
                      << "commit", block_id, Blk.header, Len(receipts) >>
                /\ UNCHANGED << block_hash_buffer, process_result, window,
                                ntxs, total_gas, result, processed >>
          /\ Runs("log_metrics") =>
                /\ process_result' = Some("success")
                /\ processed' = Append(processed, Blk.header.number)
                /\ pc' = "try"
                /\ UNCHANGED << store, window, ntxs, total_gas, result >>
          /\ (\E t \in CommitTimes :
                 commit_time' # commit_time /\ commit_time' = t) =>
                Runs("commit")]_vars

\* a slow commit of a block that was processed and accounted for like any
\* other: the call returned its totals
C33_Witness ==
    /\ ReturnedOk
    /\ Len(processed) = 2
    /\ Len(Warnings) = 1
    /\ Warnings[1].block_num = processed[2]
    /\ value(result).value[1] >= 1
\* ------------------------------------------------------------------------
\* Failure and signal mask of create_owned_event_ring
\* ------------------------------------------------------------------------
\* the positions of allocate_event_ring_file
AllocSteps == {"alloc_open", "alloc_flock", "alloc_init"}
\* the codes with which only the allocation or the rename fails
AllocOrRenameCodes == {"EEXIST", "ENOSPC", "EINIT", "EINVAL"}

\* C34: when a step of allocate_event_ring_file or the rename fails,
\* create_owned_event_ring unlinks the init file <ring-name>.<pid> and
\* nothing else, so that no file of that name remains, and returns the
\* non-zero code of the failed step; the failed rename and the unlink leave
\* the file at the ring path in place.
C34_FailureRemovesInitFile ==
    /\ [](\A p \in Procs :
             (rpc[p] \in {"sigrestore", "failed", "idle"}
                 /\ rc[p] \in AllocOrRenameCodes) =>
                 dir[InitPath(p)] = NoFile)
    /\ [][\A p \in Procs :
             /\ (rpc[p] \in AllocSteps \cup {"rename"}
                    /\ rc'[p] \notin {"", "0"}) =>
                   /\ rpc'[p] = "unlink_init"
                   /\ dir' = dir
             /\ Enters(p, "unlink_init") =>
                   /\ rpc[p] \in AllocSteps \cup {"rename"}
                   /\ rc'[p] \notin {"", "0"}
             /\ (rpc[p] = "unlink_init" /\ rpc'[p] # rpc[p]) =>
                   /\ dir'[InitPath(p)] = NoFile
                   /\ \A name \in Paths \ {InitPath(p)} :
                         dir'[name] = dir[name]
                   /\ rpc'[p] = "sigrestore"
                   /\ rc'[p] = rc[p]
             /\ (rpc[p] \in {"sigrestore", "failed"} /\ rpc'[p] # rpc[p]
                    /\ rc[p] # "0") =>
                   /\ rc'[p] = rc[p]
                   /\ rpc'[p] = (IF rpc[p] = "sigrestore"
                                 THEN "failed" ELSE "idle")]_vars

\* the rename of process 1 failed because process 2 had installed its ring
\* file: process 1 has returned EEXIST, its initialised init file is gone
\* and the file of process 2 is at the ring path
C34_Witness ==
    /\ rpc[1] = "idle"
    /\ rc[1] = "EEXIST"
    /\ Inode(1, ncalls[1]) \in initialized
    /\ dir[InitPath(1)] = NoFile
    /\ dir[RingPath] \in CreatedBy(2)
\* the positions of process p between the two sigprocmask calls of
\* create_owned_event_ring_nointr: create_owned_event_ring runs or has just
\* returned
MaskedSteps ==
    {"claim_open", "claim_flock", "claim_unlink", "claim_return",
     "unlink_init", "rename", "sigrestore"} \cup AllocSteps

\* C35: from the first sigprocmask of create_owned_event_ring_nointr to
\* the second one SIGINT and SIGTERM are blocked and the mask does not
\* change; the second one, which every return path of
\* create_owned_event_ring reaches, sets the mask the process had when the
\* first one was called, whether the code returned is 0 or not; and no
\* other step of the set-up changes the mask.
C35_SignalsBlockedAndMaskRestored ==
    /\ [](\A p \in Procs :
             rpc[p] \in MaskedSteps =>
                 /\ Blocked \subseteq sigmask[p]
                 /\ sigmask[p] = old_mask[p] \cup Blocked)
    /\ [][\A p \in Procs :
             /\ (rpc[p] = "sigblock" /\ rpc'[p] # rpc[p]) =>
                   /\ rpc'[p] = "claim_open"
                   /\ old_mask'[p] = sigmask[p]
             /\ (rpc[p] \in MaskedSteps /\ rpc'[p] # rpc[p]) =>
                   /\ old_mask'[p] = old_mask[p]
                   /\ IF rpc[p] = "sigrestore"
                      THEN /\ sigmask'[p] = old_mask[p]
                           /\ rpc'[p] \notin MaskedSteps
                      ELSE /\ sigmask'[p] = sigmask[p]
                           /\ rpc'[p] \in MaskedSteps
             /\ rpc[p] \notin MaskedSteps \cup {"sigblock"} =>
                   sigmask'[p] = sigmask[p]]_vars

\* a process that had SIGINT blocked, and SIGTERM not, has it so again
\* after create_owned_event_ring returned an error, and another one that
\* had neither blocked has neither blocked after a return of 0
C35_Witness ==
    /\ rpc[1] = "failed"
    /\ rc[1] = "EWOULDBLOCK"
    /\ sigmask[1] = {"SIGINT"}
    /\ rpc[2] = "mmap"
    /\ rc[2] = "0"
    /\ sigmask[2] = {}
\* ------------------------------------------------------------------------
\* A call that has nothing to do
\* ------------------------------------------------------------------------
\* the loop has not fetched a block, and stop is set or the start height
\* is above the end height: the loop condition is false when it is
\* first evaluated
NothingToDo ==
    /\ fetched = << >>
    /\ stop # 0 \/ start > end_block_num
    /\ pc \in {"seed_parent", "seed_grandparent", "loop", "flush",
               "returned", "aborted"}

\* C36: when stop is non-zero at the entry of runloop_monad_ethblocks (or
\* at any moment before the loop condition is first evaluated), or the
\* start height is above end_block_num, it stays so: the loop fetches no
\* block, no stage of process_monad_block runs, the store and the hash
\* buffer get no call, no throughput line is logged, finalized_block_num
\* keeps the value it came with and the call returns (0, 0).
C36_NothingToDoChangesNothing ==
    /\ [](NothingToDo =>
             /\ stages = << >>
             /\ processed = << >>
             /\ calls = << >>
             /\ block_hash_buffer = << >>
             /\ log = << >>
             /\ block_log = << >>
             /\ finalized_block_num = start
             /\ block_num = start
             /\ Returned =>
                   /\ ReturnedOk
                   /\ value(result).value = << 0, 0 >>)
    /\ [][(NothingToDo /\ pc \notin {"returned", "aborted"}) =>
             /\ NothingToDo'
             /\ pc' # pc => pc' # "seed_parent"]_vars
    /\ [](fetched = << >> /\ (stop # 0 \/ start > end_block_num)
              /\ pc \notin {"fetch", "aborted"} => NothingToDo)

\* a call with stop set, whose range holds its start height, has seeded its
\* window and returned
C36_Witness ==
    /\ ReturnedOk
    /\ stop # 0
    /\ start = 3
    /\ end_block_num = UINT64_MAX
    /\ fetched = << >>
    /\ has_value(grandparent_senders_and_authorities)
    /\ value(result).value = << 0, 0 >>
    /\ finalized_block_num = 3
\* the number of processed blocks the first i throughput lines cover
CoveredBy(i) == LoggedBlocks(SubSeq(log, 1, i))

\* C37 as claimed: every throughput line, written in the loop or by the
\* flush after it, covers the processed blocks that follow those of the
\* line before it, and the block number it reports is the height of the
\* last block it covers.
C37_LineReportsLastBlock ==
    \A i \in DOMAIN log :
        /\ log[i].nblocks >= 1
        /\ CoveredBy(i) \in 1..Len(processed)
        /\ log[i].block_num = processed[CoveredBy(i)]

\* ------------------------------------------------------------------------
\* The Memoized cache of ExprAutoMutationAnalyzer and its per-function
\* analyzers (src/unnamed/part_002)
\* ------------------------------------------------------------------------
\* DenseMap::find (line 158): what the map holds under the key, None for
\* end()
Find_Misses(map, key) == None
Find(map, key) == map[key]
\* DenseMap::try_emplace (lines 160-166): inserts the value only under a
\* key the map does not hold
try_emplace(map, key, val) ==
    IF map[key] = None THEN [map EXCEPT ![key] = Some(val)] ELSE map
\* the analyzers whose unique_ptr a map holds
Owned(map) == { map[k][1] : k \in { x \in DOMAIN map : map[x] # None } }
\* one request to a cache: what was asked, about which function or
\* expression, what was handed back, and whether an analyzer was built
Request(kind, k, r, b) == [op |-> kind, key |-> k, ret |-> r, built |-> b]
\* the number of requests made of the caches 1..c
RECURSIVE Asked(_)
Asked(c) == IF c = 0 THEN 0 ELSE Len(requests[c]) + Asked(c - 1)

\* getFunctionParmMutationAnalyzer(Func, Context, Memorized), lines 154-169.
\* The constructor of the analyzer is defined outside the header; the
\* searches it runs on the cache are the search steps below.  A unique_ptr
\* that try_emplace did not take is destroyed with its analyzer at the end
\* of the statement.
getFunctionParmMutationAnalyzer(c, f) ==
    /\ Asked(NumCaches) < MaxRequests
    /\ LET it == Find(FuncParmAnalyzer[c], f) IN
       IF it = None
       THEN LET a == constructed + 1
                map == try_emplace(FuncParmAnalyzer[c], f, a)
            IN  /\ constructed' = a
                /\ FuncParmAnalyzer' = [FuncParmAnalyzer EXCEPT ![c] = map]
                /\ alive' = IF map[f] = Some(a) THEN alive \cup {a} ELSE alive
                /\ requests' =
                       [requests EXCEPT
                           ![c] = Append(@, Request("get", f, map[f][1],
                                                    TRUE))]
       ELSE /\ requests' =
                   [requests EXCEPT
                       ![c] = Append(@, Request("get", f, it[1], FALSE))]
            /\ UNCHANGED << FuncParmAnalyzer, constructed, alive >>
    /\ UNCHANGED << Results, PointeeResults, ringvars, cfgvars, runloop >>

\* Memoized::clear, lines 40-45; clearing the analyzer map destroys the
\* analyzers its unique_ptrs own
clear(c) ==
    /\ Asked(NumCaches) < MaxRequests
    /\ Results' = [Results EXCEPT ![c] = EmptyMap(Exprs)]
    /\ PointeeResults' = [PointeeResults EXCEPT ![c] = EmptyMap(Exprs)]
    /\ FuncParmAnalyzer' = [FuncParmAnalyzer EXCEPT ![c] = EmptyMap(Funcs)]
    /\ alive' = alive \ Owned(FuncParmAnalyzer[c])
    /\ requests' =
           [requests EXCEPT ![c] = Append(@, Request("clear", 0, 0, FALSE))]
    /\ UNCHANGED << constructed, ringvars, cfgvars, runloop >>

\* Analyzer::findMutation(Exp) and Analyzer::findPointeeMutation(Exp),
\* lines 57-68: findMutationMemoized is given the map of the search
\* (Results or PointeeResults) and memoizes in it the statement found for
\* an expression the map does not hold; the search itself is defined
\* outside the header, and its answer is any statement or nullptr
findMutation(c, e) ==
    /\ Asked(NumCaches) < MaxRequests
    /\ Results[c][e] = None
    /\ \E s \in Stmts :
        /\ Results' = [Results EXCEPT ![c][e] = Some(s)]
        /\ requests' =
               [requests EXCEPT
                   ![c] = Append(@, Request("find", e, s, FALSE))]
    /\ UNCHANGED << PointeeResults, FuncParmAnalyzer, constructed, alive,
                    ringvars, cfgvars, runloop >>
findPointeeMutation(c, e) ==
    /\ Asked(NumCaches) < MaxRequests
    /\ PointeeResults[c][e] = None
    /\ \E s \in Stmts :
        /\ PointeeResults' = [PointeeResults EXCEPT ![c][e] = Some(s)]
        /\ requests' =
               [requests EXCEPT
                   ![c] = Append(@, Request("findPointee", e, s, FALSE))]
    /\ UNCHANGED << Results, FuncParmAnalyzer, constructed, alive,
                    ringvars, cfgvars, runloop >>

MemoNext ==
    \E c \in Caches :
        \/ \E f \in Funcs : getFunctionParmMutationAnalyzer(c, f)
        \/ clear(c)
        \/ \E e \in Exprs : findMutation(c, e)
        \/ \E e \in Exprs : findPointeeMutation(c, e)
\* every ExprAutoMutationAnalyzer has been constructed (lines 94-98), the
\* run loop and event.cpp are not in use
MemoInit ==
    /\ RunloopInit({1}, {1})
    /\ stop = 0
    /\ ~enable_tracing
    /\ EventUnused
MemoSpec == MemoInit /\ [][MemoNext]_vars

\* the analyzer look-ups among the requests of cache c, and whether the
\* cache was cleared between its requests i and j
Lookups(c) == { i \in DOMAIN requests[c] : requests[c][i].op = "get" }
ClearedBetween(c, i, j) ==
    \E k \in (i + 1)..(j - 1) : requests[c][k].op = "clear"
\* the step is a call of Memoized::clear on cache c
ClearStep(c) ==
    /\ Len(requests'[c]) = Len(requests[c]) + 1
    /\ requests'[c][Len(requests'[c])].op = "clear"

\* C38: in one Memoized cache, of two calls of
\* getFunctionParmMutationAnalyzer for the same function declaration with
\* no Memoized::clear between them the later one constructs no analyzer
\* and returns the instance the earlier one returned; and a call of
\* Memoized::clear leaves the result map, the pointee result map and the
\* per-function analyzer map of the cache empty, all three in one step.
C38_OneAnalyzerPerFunctionUntilClear ==
    /\ [](\A c \in Caches : \A i, j \in Lookups(c) :
            (/\ i < j
             /\ requests[c][i].key = requests[c][j].key
             /\ ~ClearedBetween(c, i, j))
            => /\ requests[c][j].ret = requests[c][i].ret
               /\ ~requests[c][j].built)
    /\ [][\A c \in Caches :
            ClearStep(c)
            => /\ Results'[c] = EmptyMap(Exprs)
               /\ PointeeResults'[c] = EmptyMap(Exprs)
               /\ FuncParmAnalyzer'[c] = EmptyMap(Funcs)]_vars
\* a cache that had memoized a result of either search was asked twice
\* for the analyzer of one function and handed back the same instance,
\* was cleared, and is empty
C38_Witness ==
    \E c \in Caches : \E f \in Funcs :
        /\ Len(requests[c]) = 5
        /\ requests[c][1].op = "find"
        /\ requests[c][2].op = "findPointee"
        /\ \A i \in {3, 4} :
               requests[c][i].op = "get" /\ requests[c][i].key = f
        /\ requests[c][3].built
        /\ requests[c][4].ret = requests[c][3].ret
        /\ requests[c][5].op = "clear"
        /\ Results[c] = EmptyMap(Exprs)
        /\ PointeeResults[c] = EmptyMap(Exprs)
        /\ FuncParmAnalyzer[c] = EmptyMap(Funcs)
        /\ alive = {}
====
